---- MODULE Spec2Model ----
(***************************************************************************)
(* Incan Gold CLI: the match and round engine (game.py), the final scores  *)
(* (ui.py), the player model (player.py) and the deck (cards.py) as a      *)
(* state machine.                                                          *)
(*                                                                         *)
(* Players are records kept in the list `players` (index 1 is the human,   *)
(* the automated players follow).  Cards are records; a card on the path   *)
(* carries its mutable remaining_treasure.  Probabilities of the automated *)
(* decision are integers in units of 1/8400.                               *)
(***************************************************************************)
EXTENDS Integers, Sequences, FiniteSets, TLC

VARIABLES
    players,            \* Game.players: list of Player records
    current_round,      \* Game.current_round
    deck,               \* Game.deck: list of cards, front first
    path,               \* Game.path: cards revealed this round
    hazard_counts,      \* Game.hazard_counts (defaultdict(int))
    artifacts_on_path,  \* Game.artifacts_on_path: pending artifacts
    num_ai_players,     \* Game.num_ai_players
    pc,                 \* position in main / play_game / play_round
    round_num,          \* play_game: loop variable of the rounds loop
    players_in_temple,  \* get_player_decisions: local list (player indices)
    decisions,          \* get_player_decisions: decisions collected so far
    game_state,         \* get_player_decisions: snapshot given to make_decision
    winner,             \* play_game: the winner (index in players), 0 before the final scores
    leaderboard,        \* contents of the leaderboard file: list of entries
    io_log,             \* accesses to the leaderboard file made by the running match
    args_players,       \* main: args.players, the count given with -p
    name_call           \* get_validated_player_name: default, attempt, what was typed, result

gameVars == <<players, current_round, deck, path, hazard_counts, artifacts_on_path,
              num_ai_players>>
ctlVars == <<pc, round_num, players_in_temple, decisions, game_state>>
matchVars == <<winner, leaderboard, io_log, args_players, name_call>>
vars == <<players, current_round, deck, path, hazard_counts, artifacts_on_path,
          num_ai_players, pc, round_num, players_in_temple, decisions, game_state,
          winner, leaderboard, io_log, args_players, name_call>>

----------------------------------------------------------------------------
(* Bounds of the model *)

\* number of automated players requested on the command line (-p N)
NumAI == 2
\* Spec explores the first round of a match with this part of the deck:
\* positions in TREASURE_CARD_VALUES of its treasure cards, and its hazard kinds
DeckTreasureIndices == {2, 5}
DeckHazards == <<"Snake", "Spider">>
\* SpecRounds explores all the rounds of a match with this part of the deck
RoundsTreasureIndices == {}
RoundsHazards == <<"Snake">>
\* SpecDeck explores a round with a part of the deck that holds no hazard, so that the
\* deck runs out while players are in the temple
ShortTreasureIndices == {3, 5}
ShortHazards == <<>>
\* SpecLast explores the last round of a match and the final scores: the part of the
\* deck of that round, and the standings (Turquoise in the tent, artifacts) a player can
\* have when the round starts
LastTreasureIndices == {5}
LastHazards == <<"Snake">>
Standings == {<<0, 0>>, <<5, 0>>, <<0, 1>>}
\* SpecPlayer calls the methods of Player on a player whose fields are drawn from these
\* sets: amounts of a treasure kind in the tent and in the round store, artifacts
UnitTentAmounts == {0, 1, 3}
UnitRoundAmounts == {0, 2}
UnitArtifacts == {0, 1, 2, 3, 4, 5}
\* SpecDefault explores the first round of a match started without -p (three automated
\* players) with this part of the deck
DefaultTreasureIndices == {5, 8}
DefaultHazards == <<"Snake">>
\* the names the human enters at the prompt ("Explorer" is the default of the prompt)
PlayerNames == {"Explorer"}
\* a match is started from the menu while the leaderboard file is one of these
ReplayLeaderboards == {[exists |-> FALSE, well_formed |-> TRUE, entries |-> <<>>]}
\* SpecFull explores a round with the whole deck of create_deck, shuffled into one of
\* these orders: the deck as built, the deck reversed, and the deck with every second
\* hazard card of a kind at the end, each cut at one of these positions
FullDeckCuts == {0, 3, 5, 9, 13, 17, 22, 25}
\* SpecName calls get_validated_player_name with these defaults ("Explorer" is the one
\* setup_players passes) while these lines are typed at the prompt: every line of at
\* most ShortLine characters of TypedChars, and lines longer than a name may be.
\* A name is a sequence of characters; "^G" stands for the control character U+0007.
Explorer == <<"E", "x", "p", "l", "o", "r", "e", "r">>
NameDefaults == {Explorer, <<"!">>}
TypedChars == {"a", " ", "\t", "!", "^G"}
ShortLine == {0, 1, 2}
LongLines ==
    {[i \in 1..19 |-> "a"],
     [i \in 1..20 |-> IF i = 18 THEN " " ELSE "a"],
     [i \in 1..19 |-> IF i = 19 THEN "a" ELSE "!"]}
\* SpecStart explores the start of a match for these counts given with -p
RequestedCounts == {-1, 0, 1, 2, 3, 4, 5, 6, 7, 8}
\* SpecBoard explores the last round of a match and the leaderboard: the standings a
\* player can have when the round starts, and the entries of the file (a file holds
\* the first StoredLengths entries of StoredEntries, or does not parse)
BoardStandings == {<<0, 0>>, <<5, 0>>}
StoredEntries ==
    <<[name |-> "Ana", score |-> 20, artifacts |-> 2],
      [name |-> "Explorer", score |-> 10, artifacts |-> 1],
      [name |-> "Ben", score |-> 10, artifacts |-> 0],
      [name |-> "Explorer", score |-> 5, artifacts |-> 1],
      [name |-> "Cleo", score |-> 5, artifacts |-> 1],
      [name |-> "Explorer", score |-> 5, artifacts |-> 0],
      [name |-> "Dan", score |-> 5, artifacts |-> 0],
      [name |-> "Eli", score |-> 0, artifacts |-> 0],
      [name |-> "Explorer", score |-> 0, artifacts |-> 0],
      [name |-> "Fay", score |-> 0, artifacts |-> 0]>>
StoredLengths == {1, 9, 10}
\* the points where an access to the leaderboard file raises IOError: opening it for
\* reading, opening it for writing, writing to it once it is open
IOFaults == {"none", "read", "write_open", "write_dump"}
NoFaults == {"none"}

----------------------------------------------------------------------------
(* config.py *)

MAX_ROUNDS == 5
DEFAULT_NUM_PLAYERS == 3
MAX_PLAYERS == 7
MIN_PLAYERS == 1
MAX_PLAYER_NAME_LENGTH == 18
MIN_PLAYER_NAME_LENGTH == 1
AI_RISK_TOLERANCE_MIN == 30     \* 0.3, in hundredths
AI_RISK_TOLERANCE_MAX == 80     \* 0.8, in hundredths
TREASURE_CARD_VALUES == <<1, 2, 3, 4, 5, 5, 6, 7, 8, 9, 10, 11, 12, 13, 14, 15>>
HAZARD_TYPES_COUNT == 2
ARTIFACTS_PER_ROUND == 1
DEFAULT_AI_NAMES == <<"Maya the Bold", "Diego the Cautious", "Carmen the Lucky",
                      "Zara the Wise", "Felix the Daring", "Iris the Patient",
                      "Thor the Brave">>
ARTIFACT_FIRST_TIER_COUNT == 3
ARTIFACT_FIRST_TIER_VALUE == 5
ARTIFACT_SECOND_TIER_VALUE == 10
LEADERBOARD_MAX_ENTRIES == 10

----------------------------------------------------------------------------
(* cards.py *)

HazardType == <<"Snake", "Spider", "Mummy", "Fire", "Collapse">>
HazardKinds == {HazardType[i] : i \in 1..Len(HazardType)}
TreasureType == {"TURQUOISE", "OBSIDIAN", "GOLD"}
TreasureTypeValue(t) == CASE t = "TURQUOISE" -> 1 [] t = "OBSIDIAN" -> 5 [] t = "GOLD" -> 10

\* dataclass Card (the display name is left out)
Card(ct, v, h) == [card_type |-> ct, value |-> v, hazard_type |-> h, remaining_treasure |-> 0]

RECURSIVE Repeat(_, _)
Repeat(x, n) == IF n = 0 THEN <<>> ELSE <<x>> \o Repeat(x, n - 1)

RECURSIVE HazardCards(_, _)
HazardCards(kinds, i) ==
    IF i > Len(kinds) THEN <<>>
    ELSE Repeat(Card("hazard", 0, kinds[i]), HAZARD_TYPES_COUNT) \o HazardCards(kinds, i + 1)

\* create_deck, for given treasure values and hazard kinds
DeckOf(values, kinds) ==
    [i \in 1..Len(values) |-> Card("treasure", values[i], "None")]
    \o HazardCards(kinds, 1)
    \o Repeat(Card("artifact", 0, "None"), ARTIFACTS_PER_ROUND)

create_deck == DeckOf(TREASURE_CARD_VALUES, HazardType)

RECURSIVE PickTreasures(_, _)
PickTreasures(indices, i) ==
    IF i > Len(TREASURE_CARD_VALUES) THEN <<>>
    ELSE (IF i \in indices THEN <<TREASURE_CARD_VALUES[i]>> ELSE <<>>)
         \o PickTreasures(indices, i + 1)

\* the decks explored under the bounds: sub-populations of create_deck
ExploredDeck == DeckOf(PickTreasures(DeckTreasureIndices, 1), DeckHazards)
RoundsDeck == DeckOf(PickTreasures(RoundsTreasureIndices, 1), RoundsHazards)
ShortDeck == DeckOf(PickTreasures(ShortTreasureIndices, 1), ShortHazards)
LastDeck == DeckOf(PickTreasures(LastTreasureIndices, 1), LastHazards)
DefaultDeck == DeckOf(PickTreasures(DefaultTreasureIndices, 1), DefaultHazards)

\* orders of the cards of create_deck (positions in create_deck): as built, reversed,
\* and treasures, artifact, one hazard card of each kind, then the second of each kind
AsBuiltOrder == [i \in 1..Len(create_deck) |-> i]
ReversedOrder == [i \in 1..Len(create_deck) |-> Len(create_deck) + 1 - i]
LateHazardsOrder ==
    LET t == Len(TREASURE_CARD_VALUES)
        k == Len(HazardType)
    IN  [i \in 1..Len(create_deck) |->
            IF i <= t THEN i
            ELSE IF i = t + 1 THEN Len(create_deck)
            ELSE IF i <= t + 1 + k THEN t + 1 + HAZARD_TYPES_COUNT * (i - t - 2)
            ELSE t + 2 + HAZARD_TYPES_COUNT * (i - t - 2 - k)]
\* the order cut at position k: the cards after the cut come first
CutAt(order, k) == [i \in 1..Len(order) |-> order[((i - 1 + k) % Len(order)) + 1]]
\* results of random.shuffle(self.deck) on the whole deck
FullDeckShuffles ==
    {[i \in 1..Len(create_deck) |-> create_deck[CutAt(order, k)[i]]] :
        order \in {AsBuiltOrder, ReversedOrder, LateHazardsOrder}, k \in FullDeckCuts}

\* random.shuffle(self.deck): the orders the shuffle can produce
Shuffles(cards) ==
    {[i \in 1..Len(cards) |-> cards[f[i]]] : f \in Permutations(1..Len(cards))}

\* the draw taking a card at any position of the deck, shuffled or not
DrawPositions_any(d, front) == 1..Len(d)

\* deck.pop(0) takes the front card of the shuffled deck (front).  The shuffle is uniform
\* and nothing but the pop observes the order of the deck, so a specification may instead
\* resolve the order card by card (~front): deck then holds the cards not drawn yet, as
\* built by create_deck, and the card popped is the one at any position of it.
DrawPositions(d, front) == IF front THEN {1} ELSE 1..Len(d)
Pop(d, k) == SubSeq(d, 1, k - 1) \o SubSeq(d, k + 1, Len(d))

----------------------------------------------------------------------------
(* player.py *)

NoTreasures == [t \in TreasureType |-> 0]

\* Player.__init__ / AIPlayer.__init__ (tol: risk_tolerance in hundredths, 0 for the human)
Player(name, human, tol) ==
    [name |-> name, is_human |-> human, tent_treasures |-> NoTreasures, artifacts |-> 0,
     round_treasures |-> NoTreasures, in_temple |-> TRUE, total_score |-> 0,
     risk_tolerance |-> tol]

add_treasure_to_tent(p, t, amount) ==
    [p EXCEPT !.tent_treasures[t] = @ + amount]

\* add_treasure_to_round crediting the amount as Gold whatever the kind asked for
add_treasure_to_round_gold(p, t, amount) ==
    [p EXCEPT !.round_treasures["GOLD"] = @ + amount]

\* Player.add_treasure_to_round
add_treasure_to_round(p, t, amount) ==
    [p EXCEPT !.round_treasures[t] = @ + amount]

\* move_round_treasures_to_tent leaving the round store as it is
move_round_treasures_to_tent_keeping(p) ==
    [p EXCEPT !.tent_treasures = [t \in TreasureType |-> @[t] + p.round_treasures[t]]]

\* move_round_treasures_to_tent clearing the Turquoise of the round store only
move_round_treasures_to_tent_turquoise(p) ==
    [p EXCEPT !.tent_treasures = [t \in TreasureType |-> @[t] + p.round_treasures[t]],
              !.round_treasures["TURQUOISE"] = 0]

move_round_treasures_to_tent(p) ==
    [p EXCEPT !.tent_treasures = [t \in TreasureType |-> @[t] + p.round_treasures[t]],
              !.round_treasures = [t \in TreasureType |-> 0]]

\* lose_round_treasures banking the round store instead of discarding it
lose_round_treasures_banked(p) == move_round_treasures_to_tent(p)

lose_round_treasures(p) == [p EXCEPT !.round_treasures = NoTreasures]

\* the artifact tiers of calculate_score
artifact_score(n) ==
    IF n <= ARTIFACT_FIRST_TIER_COUNT
    THEN n * ARTIFACT_FIRST_TIER_VALUE
    ELSE ARTIFACT_FIRST_TIER_COUNT * ARTIFACT_FIRST_TIER_VALUE
         + (n - ARTIFACT_FIRST_TIER_COUNT) * ARTIFACT_SECOND_TIER_VALUE

\* calculate_score with every artifact counted at the first tier value
calculate_score_flat(p) ==
    [p EXCEPT !.total_score =
        p.tent_treasures["TURQUOISE"] * TreasureTypeValue("TURQUOISE")
        + p.tent_treasures["OBSIDIAN"] * TreasureTypeValue("OBSIDIAN")
        + p.tent_treasures["GOLD"] * TreasureTypeValue("GOLD")
        + p.artifacts * ARTIFACT_FIRST_TIER_VALUE]

\* Player.calculate_score: the player after the call; the value returned is its total_score
calculate_score(p) ==
    [p EXCEPT !.total_score =
        p.tent_treasures["TURQUOISE"] * TreasureTypeValue("TURQUOISE")
        + p.tent_treasures["OBSIDIAN"] * TreasureTypeValue("OBSIDIAN")
        + p.tent_treasures["GOLD"] * TreasureTypeValue("GOLD")
        + artifact_score(p.artifacts)]

\* reset_for_round leaving the player where the last round left it
reset_for_round_store_only(p) == [p EXCEPT !.round_treasures = NoTreasures]

reset_for_round(p) == [p EXCEPT !.round_treasures = NoTreasures, !.in_temple = TRUE]

RECURSIVE SumOver(_, _)
SumOver(S, f) ==
    IF S = {} THEN 0
    ELSE LET x == CHOOSE y \in S : TRUE IN f[x] + SumOver(S \ {x}, f)

get_round_treasure_value(p) ==
    SumOver(TreasureType, [t \in TreasureType |-> p.round_treasures[t] * TreasureTypeValue(t)])

get_tent_treasure_value(p) ==
    SumOver(TreasureType, [t \in TreasureType |-> p.tent_treasures[t] * TreasureTypeValue(t)])

Min(a, b) == IF a < b THEN a ELSE b
Max(a, b) == IF a > b THEN a ELSE b

\* AIPlayer.make_decision: leave_probability in units of 1/8400, for a draw rnd of
\* random.uniform(-RANDOMNESS_FACTOR, RANDOMNESS_FACTOR) given in units of 1/4200
leave_probability(p, gs, rnd) ==
    LET hc == gs.hazard_counts
        seen == {h \in DOMAIN hc : hc[h] > 0}          \* keys of dict(hazard_counts)
        max_hazards == IF seen = {} THEN 0
                       ELSE CHOOSE m \in {hc[h] : h \in seen} : \A h \in seen : hc[h] <= m
        risk_factor == max_hazards * 2100                              \* RISK_WEIGHT 0.5
        treasure_factor == Min(get_round_treasure_value(p) * 63, 1260) \* TREASURE_WEIGHT 0.3
        player_factor == 840 \div Max(gs.players_remaining, 1)         \* PLAYER_WEIGHT 0.2
    IN  risk_factor + treasure_factor - player_factor + 42 * (100 - p.risk_tolerance) + rnd
        + 840 * gs.round

\* draws of random.uniform(-0.1, 0.1) (units of 1/4200) and random.random() (1/8400)
RandomnessDraws == {-420, 0, 420}
RandomDraws == {0, 4200, 8399}
\* draws of random.uniform(AI_RISK_TOLERANCE_MIN, AI_RISK_TOLERANCE_MAX)
RiskTolerances == {AI_RISK_TOLERANCE_MIN, AI_RISK_TOLERANCE_MAX}

\* the decisions make_decision can return: random.random() > leave_probability
make_decision(p, gs) ==
    {u > leave_probability(p, gs, rnd) : rnd \in RandomnessDraws, u \in RandomDraws}

----------------------------------------------------------------------------
(* game.py: Game *)

NoHazards == [h \in HazardKinds |-> 0]
\* the leaderboard file does not exist (os.path.exists is False)
NoFile == [exists |-> FALSE, well_formed |-> TRUE, entries |-> <<>>]
\* the leaderboard file holds text that json.load rejects (open(.., 'w') has emptied it
\* and nothing complete was written since)
NotJSON == [exists |-> TRUE, well_formed |-> FALSE, entries |-> <<>>]
\* the leaderboard file as json.dump writes it
JSONFile(entries) == [exists |-> TRUE, well_formed |-> TRUE, entries |-> entries]
NoGameState == [hazard_counts |-> NoHazards, players_remaining |-> 0, round |-> 0]

\* the order of the sort keys (-score, -artifacts): tuples compared lexicographically
KeyLess(a, b) == a[1] < b[1] \/ (a[1] = b[1] /\ a[2] < b[2])

\* sorted / list.sort by key are stable: an item goes after the items whose key is not
\* greater (s: list of [key, item], already sorted)
\* a sort that is not stable: an item goes before the items with an equal key
RECURSIVE insert_before_equal(_, _)
insert_before_equal(s, x) ==
    IF s = <<>> THEN <<x>>
    ELSE IF ~KeyLess(Head(s).key, x.key) THEN <<x>> \o s
    ELSE <<Head(s)>> \o insert_before_equal(Tail(s), x)

RECURSIVE Insert(_, _)
Insert(s, x) ==
    IF s = <<>> THEN <<x>>
    ELSE IF KeyLess(x.key, Head(s).key) THEN <<x>> \o s
    ELSE <<Head(s)>> \o Insert(Tail(s), x)

RECURSIVE Sorted(_)
Sorted(s) ==
    IF s = <<>> THEN <<>> ELSE Insert(Sorted(SubSeq(s, 1, Len(s) - 1)), s[Len(s)])

\* Game.__init__: the clamp of the requested number of automated players
ClampAI(n) == Max(MIN_PLAYERS, Min(n, MAX_PLAYERS - 1))

\* incan_gold.validate_player_count
validate_player_count(num_players) ==
    IF num_players < MIN_PLAYERS THEN MIN_PLAYERS
    ELSE IF num_players > MAX_PLAYERS - 1 THEN MAX_PLAYERS - 1
    ELSE num_players

\* setup_players taking every name of DEFAULT_AI_NAMES
ai_names_all(n) == DEFAULT_AI_NAMES

\* setup_players: ai_names = DEFAULT_AI_NAMES[:self.num_ai_players]
ai_names(n) == SubSeq(DEFAULT_AI_NAMES, 1, Min(n, Len(DEFAULT_AI_NAMES)))

\* [p for p in self.players if p.in_temple], as player indices in list order
InTemple(ps) == SelectSeq([i \in 1..Len(ps) |-> i], LAMBDA i : ps[i].in_temple)

SeqSet(s) == {s[i] : i \in 1..Len(s)}

RECURSIVE SeqSum(_)
SeqSum(s) == IF s = <<>> THEN 0 ELSE Head(s) + SeqSum(Tail(s))

\* distribute_treasure with the share handed to every player of the game
distribute_treasure_all(ps, card) ==
    LET n == Len(InTemple(ps))
    IN  IF n = 0
        THEN [players |-> ps, card |-> card, result |-> TRUE]
        ELSE [players |->
                 [i \in 1..Len(ps) |->
                     IF card.value \div n > 0
                     THEN add_treasure_to_round(ps[i], "TURQUOISE", card.value \div n)
                     ELSE ps[i]],
              card |-> [card EXCEPT !.remaining_treasure = card.value % n],
              result |-> TRUE]

\* Game.distribute_treasure: the players and the card after the distribution
distribute_treasure(ps, card) ==
    LET pit == InTemple(ps)
        n == Len(pit)
    IN  IF n = 0
        THEN [players |-> ps, card |-> card, result |-> TRUE]
        ELSE LET treasure_per_player == card.value \div n
                 remaining_treasure == card.value % n
             IN  [players |->
                     [i \in 1..Len(ps) |->
                         IF i \in SeqSet(pit) /\ treasure_per_player > 0
                         THEN add_treasure_to_round(ps[i], "TURQUOISE", treasure_per_player)
                         ELSE ps[i]],
                  card |-> [card EXCEPT !.remaining_treasure = remaining_treasure],
                  result |-> TRUE]

\* process_hazard ending the round on the second hazard of any kind
process_hazard_any(hc, card) ==
    LET tally == [hc EXCEPT ![card.hazard_type] = @ + 1]
    IN  [hazard_counts |-> tally,
         result |-> SumOver(HazardKinds, tally) < 2]

\* process_hazard counting only the first card of a kind
process_hazard_first_only(hc, card) ==
    LET count == hc[card.hazard_type] + 1
    IN  [hazard_counts |-> [hc EXCEPT ![card.hazard_type] = 1],
         result |-> count < 2]

\* process_hazard ending the round on a third hazard card of a kind
process_hazard_third(hc, card) ==
    LET count == hc[card.hazard_type] + 1
    IN  [hazard_counts |-> [hc EXCEPT ![card.hazard_type] = count],
         result |-> count < 3]

\* Game.process_hazard: the tally after the card, and whether the round continues
process_hazard(hc, card) ==
    LET count == hc[card.hazard_type] + 1
    IN  [hazard_counts |-> [hc EXCEPT ![card.hazard_type] = count],
         result |-> count < 2]

\* Game.process_card: the game fields after the card is appended and processed
process_card(ps, pa, hc, arts, card) ==
    IF card.card_type = "treasure"
    THEN LET d == distribute_treasure(ps, card)
         IN  [players |-> d.players, path |-> Append(pa, d.card), hazard_counts |-> hc,
              artifacts_on_path |-> arts, result |-> d.result]
    ELSE IF card.card_type = "hazard"
    THEN LET h == process_hazard(hc, card)
         IN  [players |-> ps, path |-> Append(pa, card), hazard_counts |-> h.hazard_counts,
              artifacts_on_path |-> arts, result |-> h.result]
    ELSE [players |-> ps, path |-> Append(pa, card), hazard_counts |-> hc,
          artifacts_on_path |-> Append(arts, card), result |-> TRUE]

\* leaving_players taken from the players who decided to continue
LeavingPlayers_continuing(dec) ==
    LET leaving == SelectSeq(dec, LAMBDA d : d.decision)
    IN  [i \in 1..Len(leaving) |-> leaving[i].player]

\* leaving_players of process_departures: the players whose decision is False
LeavingPlayers(dec) ==
    LET leaving == SelectSeq(dec, LAMBDA d : ~d.decision)
    IN  [i \in 1..Len(leaving) |-> leaving[i].player]

\* the split and the clearing of the path skipped when the share of a leaver is zero
path_treasure_split_positive(total_path_treasure, k) ==
    k > 0 /\ total_path_treasure \div k > 0

\* process_departures: whether the path treasure is split among the leavers and cleared
path_treasure_split(total_path_treasure, k) == total_path_treasure > 0 /\ k > 0

\* the share of one leaver rounded up instead of down
treasure_per_leaver_ceil(total_path_treasure, k) == (total_path_treasure + k - 1) \div k

\* process_departures: the integer share of the path treasure of one leaver
treasure_per_leaver(total_path_treasure, k) == total_path_treasure \div k

\* the pending artifacts awarded (to the first leaver) whenever somebody leaves
artifacts_awarded_any(k, arts) == k >= 1 /\ arts # <<>>

\* process_departures: whether the pending artifacts go to the leaver
artifacts_awarded(k, arts) == k = 1 /\ arts # <<>>

\* the pending list emptied by every departure, awarded or not
pending_after_cleared(award, arts) == <<>>

\* process_departures: the pending artifacts after the departures
pending_after(award, arts) == IF award THEN <<>> ELSE arts

\* sum(card.remaining_treasure for card in self.path)
PathTreasure(pa) == SeqSum([i \in 1..Len(pa) |-> pa[i].remaining_treasure])

\* Game.process_departures: players, path and pending artifacts after the departures
process_departures(ps, pa, arts, dec) ==
    LET leaving_players == LeavingPlayers(dec)
        k == Len(leaving_players)
        left == SeqSet(leaving_players)
        total_path_treasure == PathTreasure(pa)
        split == path_treasure_split(total_path_treasure, k)
        share == IF split THEN treasure_per_leaver(total_path_treasure, k) ELSE 0
        moved == [i \in 1..Len(ps) |->
                    IF i \in left
                    THEN [move_round_treasures_to_tent(ps[i]) EXCEPT !.in_temple = FALSE]
                    ELSE ps[i]]
        shared == [i \in 1..Len(ps) |->
                    IF i \in left /\ share > 0
                    THEN add_treasure_to_tent(moved[i], "TURQUOISE", share)
                    ELSE moved[i]]
        award == artifacts_awarded(k, arts)
    IN  IF k = 0
        THEN [players |-> ps, path |-> pa, artifacts_on_path |-> arts]
        ELSE [players |->
                 [i \in 1..Len(ps) |->
                     IF award /\ i = leaving_players[1]
                     THEN [shared[i] EXCEPT !.artifacts = @ + Len(arts)]
                     ELSE shared[i]],
              path |-> IF split
                       THEN [i \in 1..Len(pa) |-> [pa[i] EXCEPT !.remaining_treasure = 0]]
                       ELSE pa,
              artifacts_on_path |-> pending_after(award, arts)]

\* the sort key of display_final_scores with the artifacts left out
final_key_score_only(p) == <<-p.total_score, 0>>

\* display_final_scores: key=lambda p: (-p.total_score, -p.artifacts)
final_key(p) == <<-p.total_score, -p.artifacts>>

\* GameUI.display_final_scores: the players after calculate_score, and sorted_players[0]
display_final_scores(ps) ==
    LET scored == [i \in 1..Len(ps) |-> calculate_score(ps[i])]
        sorted_players == Sorted([i \in 1..Len(ps) |->
                                     [key |-> final_key(scored[i]), item |-> i]])
    IN  [players |-> scored, winner |-> sorted_players[1].item]

\* save_leaderboard persisting the winner whoever it is
persisted_any(w) == TRUE

\* save_leaderboard: only human player wins are saved
persisted(w) == w.is_human

\* save_leaderboard: the winner appended, the list sorted, the top entries kept
top_entries(loaded, w) ==
    LET appended == Append(loaded, [name |-> w.name, score |-> w.total_score,
                                    artifacts |-> w.artifacts])
        sorted == Sorted([i \in 1..Len(appended) |->
                             [key |-> <<-appended[i].score, -appended[i].artifacts>>,
                              item |-> appended[i]]])
    IN  [i \in 1..Min(Len(sorted), LEADERBOARD_MAX_ENTRIES) |-> sorted[i].item]

\* Game.save_leaderboard: the file and what is read, written and printed ("io_error",
\* "json_error": the message of an except clause), for the file found, the winner w
\* and the access that raises IOError (fault)
save_leaderboard(file, w, fault) ==
    LET reads == IF file.exists THEN <<"read">> ELSE <<>>
    IN  IF file.exists /\ fault = "read"
        THEN [file |-> file, io |-> <<"io_error">>]
        ELSE IF file.exists /\ ~file.well_formed
        THEN [file |-> file, io |-> reads \o <<"json_error">>]
        ELSE IF ~persisted(w)
        THEN [file |-> file, io |-> reads]
        ELSE IF fault = "write_open"
        THEN [file |-> file, io |-> reads \o <<"io_error">>]
        ELSE IF fault = "write_dump"
        THEN [file |-> NotJSON, io |-> reads \o <<"write", "io_error">>]
        ELSE [file |-> JSONFile(top_entries(file.entries, w)),
              io |-> reads \o <<"write">>]

\* Game.display_leaderboard: what is read and printed
display_leaderboard_io(file, fault) ==
    IF ~file.exists THEN <<>>
    ELSE IF fault = "read" THEN <<"io_error">>
    ELSE IF ~file.well_formed THEN <<"read", "json_error">>
    ELSE <<"read">>

----------------------------------------------------------------------------
(* utils.py *)

\* str.isspace, str.isprintable and the characters of name.strip('.,!?@#...')
Whitespace == {" ", "\t"}
NonPrintable == {"\t", "^G"}
SpecialChars == {".", ",", "!", "?", "@", "#", "$", "%", "^", "&", "*", "(", ")", "[", "]",
                 "{", "}", "|", "\\", ":", "\"", ";", "'", "<", ">", "/"}

\* str.lstrip(chars), str.rstrip(chars), str.strip(chars)
RECURSIVE LStrip(_, _)
LStrip(name, chars) ==
    IF name # <<>> /\ Head(name) \in chars THEN LStrip(Tail(name), chars) ELSE name
RECURSIVE RStrip(_, _)
RStrip(name, chars) ==
    IF name # <<>> /\ name[Len(name)] \in chars
    THEN RStrip(SubSeq(name, 1, Len(name) - 1), chars) ELSE name
Strip(name, chars) == RStrip(LStrip(name, chars), chars)

\* re.sub(r'\s+', ' ', name): every run of whitespace becomes one space
RECURSIVE CollapseWhitespace(_)
CollapseWhitespace(name) ==
    IF name = <<>> THEN <<>>
    ELSE IF Head(name) \in Whitespace
    THEN <<" ">> \o CollapseWhitespace(LStrip(name, Whitespace))
    ELSE <<Head(name)>> \o CollapseWhitespace(Tail(name))

\* ''.join(char for char in name if char.isprintable())
Printable(name) == SelectSeq(name, LAMBDA c : c \notin NonPrintable)

\* validate_player_name: ok is FALSE when ValueError is raised, name is the value returned
validate_player_name(name) ==
    LET cleaned == Printable(CollapseWhitespace(Strip(name, Whitespace)))
        cut == IF Len(cleaned) > MAX_PLAYER_NAME_LENGTH
               THEN Strip(SubSeq(cleaned, 1, MAX_PLAYER_NAME_LENGTH), Whitespace)
               ELSE cleaned
        bare == Strip(cut, SpecialChars)
    IN  IF Len(cleaned) < MIN_PLAYER_NAME_LENGTH THEN [ok |-> FALSE, name |-> <<>>]
        ELSE IF Len(cut) < MIN_PLAYER_NAME_LENGTH THEN [ok |-> FALSE, name |-> <<>>]
        ELSE IF Len(bare) < MIN_PLAYER_NAME_LENGTH THEN [ok |-> FALSE, name |-> <<>>]
        ELSE [ok |-> TRUE, name |-> bare]

\* get_validated_player_name: max_attempts
max_attempts == 3

\* get_validated_player_name validating what was typed even when it is empty
name_or_default_raw(raw_input, default) == raw_input

\* get_validated_player_name: if not raw_input: raw_input = default
name_or_default(raw_input, default) == IF raw_input = <<>> THEN default ELSE raw_input

\* get_validated_player_name is not running
NoNameCall == [default |-> <<>>, attempt |-> 0, typed |-> <<>>, name |-> <<>>]

----------------------------------------------------------------------------
(* The program as a state machine *)

\* main: game = Game(num_ai_players=...), at the menu
Init ==
    /\ players = <<>>
    /\ current_round = 0
    /\ deck = <<>>
    /\ path = <<>>
    /\ hazard_counts = NoHazards
    /\ artifacts_on_path = <<>>
    /\ args_players = NumAI
    /\ num_ai_players = ClampAI(validate_player_count(args_players))
    /\ pc = "menu"
    /\ round_num = 0
    /\ players_in_temple = <<>>
    /\ decisions = <<>>
    /\ game_state = NoGameState
    /\ winner = 0
    /\ leaderboard = NoFile
    /\ io_log = <<>>
    /\ name_call = NoNameCall

\* play_game called on the Game that main holds: setup_players builds the player list,
\* and the rounds loop begins
start_match(tols) ==
    /\ pc = "menu"
    /\ \E player_name \in PlayerNames, t \in [1..Len(ai_names(num_ai_players)) -> tols] :
          players' = <<Player(player_name, TRUE, 0)>>
                     \o [i \in 1..Len(ai_names(num_ai_players)) |->
                            Player(ai_names(num_ai_players)[i], FALSE, t[i])]
    /\ round_num' = 1
    /\ pc' = "play_round"
    /\ UNCHANGED <<current_round, deck, path, hazard_counts, artifacts_on_path,
                   num_ai_players, players_in_temple, decisions, game_state>>
    /\ UNCHANGED matchVars

\* menu choice 1, explored while the leaderboard file is one of ReplayLeaderboards
play_game(tols) ==
    /\ leaderboard \in ReplayLeaderboards
    /\ start_match(tols)

\* setup_round without the reset of the pending artifacts
setup_round_keeping_artifacts(cards) ==
    /\ pc = "play_round"
    /\ current_round' = current_round + 1
    /\ deck' = cards
    /\ path' = <<>>
    /\ hazard_counts' = NoHazards
    /\ players' = [i \in 1..Len(players) |-> reset_for_round(players[i])]
    /\ pc' = "first_card"
    /\ UNCHANGED <<artifacts_on_path, num_ai_players, round_num, players_in_temple,
                   decisions, game_state>>
    /\ UNCHANGED matchVars

\* setup_round without the reset of the hazard tally
setup_round_keeping_hazards(cards) ==
    /\ pc = "play_round"
    /\ current_round' = current_round + 1
    /\ deck' = cards
    /\ path' = <<>>
    /\ artifacts_on_path' = <<>>
    /\ players' = [i \in 1..Len(players) |-> reset_for_round(players[i])]
    /\ pc' = "first_card"
    /\ UNCHANGED <<hazard_counts, num_ai_players, round_num, players_in_temple, decisions,
                   game_state>>
    /\ UNCHANGED matchVars

\* play_round, first lines: setup_round (cards: the population the deck is built from)
setup_round(cards) ==
    /\ pc = "play_round"
    /\ current_round' = current_round + 1
    /\ deck' = cards
    /\ path' = <<>>
    /\ hazard_counts' = NoHazards
    /\ artifacts_on_path' = <<>>
    /\ players' = [i \in 1..Len(players) |-> reset_for_round(players[i])]
    /\ pc' = "first_card"
    /\ UNCHANGED <<num_ai_players, round_num, players_in_temple, decisions, game_state>>
    /\ UNCHANGED matchVars

\* play_round: the first card is drawn and processed right after the round starts
draw_first_card(front) ==
    /\ pc = "first_card"
    /\ IF deck # <<>>
       THEN \E k \in DrawPositions(deck, front) :
            LET r == process_card(players, path, hazard_counts, artifacts_on_path, deck[k])
            IN  /\ deck' = Pop(deck, k)
                /\ path' = r.path
                /\ hazard_counts' = r.hazard_counts
                /\ artifacts_on_path' = r.artifacts_on_path
                /\ IF ~r.result
                   THEN /\ players' = [i \in 1..Len(players) |->
                                          lose_round_treasures(r.players[i])]
                        /\ pc' = "end_first_card"
                   ELSE /\ players' = r.players
                        /\ pc' = "loop"
       ELSE /\ pc' = "loop"
            /\ UNCHANGED <<players, deck, path, hazard_counts, artifacts_on_path>>
    /\ UNCHANGED <<current_round, num_ai_players, round_num, players_in_temple, decisions,
                   game_state>>
    /\ UNCHANGED matchVars

\* the automated players of pit whose decision is not collected yet, in list order
AIPending(ps, pit, dec) ==
    SelectSeq(pit, LAMBDA i : ~ps[i].is_human /\ \A j \in 1..Len(dec) : dec[j].player # i)

\* the snapshot get_player_decisions builds for make_decision
Snapshot(hc, pit, rnd) == [hazard_counts |-> hc, players_remaining |-> Len(pit), round |-> rnd]

\* check_end_conditions without the check of the deck
check_end_conditions_no_deck_check ==
    /\ pc = "loop"
    /\ LET pit == InTemple(players)
       IN  IF pit = <<>>
           THEN /\ pc' = "end_all_left"
                /\ decisions' = <<>>
                /\ UNCHANGED <<players_in_temple, game_state>>
           ELSE /\ players_in_temple' = pit
                /\ decisions' = <<>>
                /\ IF \E i \in SeqSet(pit) : players[i].is_human
                   THEN /\ pc' = "human_decision"
                        /\ game_state' = NoGameState
                   ELSE /\ pc' = "ai_decisions"
                        /\ game_state' = Snapshot(hazard_counts, pit, current_round)
    /\ UNCHANGED <<gameVars, round_num>>
    /\ UNCHANGED matchVars

\* play_round, top of the loop: the end conditions, then get_player_decisions begins
check_end_conditions ==
    /\ pc = "loop"
    /\ LET pit == InTemple(players)
       IN  IF pit = <<>>
           THEN /\ pc' = "end_all_left"
                /\ decisions' = <<>>
                /\ UNCHANGED <<players_in_temple, game_state>>
           ELSE IF deck = <<>>
           THEN /\ pc' = "end_deck_empty"
                /\ decisions' = <<>>
                /\ UNCHANGED <<players_in_temple, game_state>>
           ELSE /\ players_in_temple' = pit
                /\ decisions' = <<>>
                /\ IF \E i \in SeqSet(pit) : players[i].is_human
                   THEN /\ pc' = "human_decision"
                        /\ game_state' = NoGameState
                   ELSE /\ pc' = "ai_decisions"
                        /\ game_state' = Snapshot(hazard_counts, pit, current_round)
    /\ UNCHANGED <<gameVars, round_num>>
    /\ UNCHANGED matchVars

\* get_human_decision with the human's departure applied as soon as it is decided
get_human_decision_applied ==
    /\ pc = "human_decision"
    /\ \E choice \in {"C", "L", "Q"} :
          IF choice = "Q"
          THEN /\ pc' = "quit"
               /\ UNCHANGED <<players, decisions, game_state>>
          ELSE LET h == CHOOSE i \in SeqSet(players_in_temple) : players[i].is_human
                   dec == Append(decisions, [player |-> h, decision |-> (choice = "C")])
               IN  /\ decisions' = dec
                   /\ players' = IF choice = "C" THEN players
                                 ELSE [players EXCEPT ![h] =
                                          [move_round_treasures_to_tent(@) EXCEPT
                                              !.in_temple = FALSE]]
                   /\ game_state' = Snapshot(hazard_counts, InTemple(players'), current_round)
                   /\ pc' = IF AIPending(players, players_in_temple, dec) = <<>>
                            THEN "departures" ELSE "ai_decisions"
    /\ UNCHANGED <<current_round, deck, path, hazard_counts, artifacts_on_path,
                   num_ai_players, round_num, players_in_temple>>
    /\ UNCHANGED matchVars

\* get_player_decisions: the human answers C (continue), L (leave) or Q (quit)
get_human_decision ==
    /\ pc = "human_decision"
    /\ \E choice \in {"C", "L", "Q"} :
          IF choice = "Q"
          THEN /\ pc' = "quit"
               /\ UNCHANGED <<decisions, game_state>>
          ELSE LET h == CHOOSE i \in SeqSet(players_in_temple) : players[i].is_human
                   dec == Append(decisions, [player |-> h, decision |-> (choice = "C")])
               IN  /\ decisions' = dec
                   /\ game_state' = Snapshot(hazard_counts, players_in_temple, current_round)
                   /\ pc' = IF AIPending(players, players_in_temple, dec) = <<>>
                            THEN "departures" ELSE "ai_decisions"
    /\ UNCHANGED <<gameVars, round_num, players_in_temple>>
    /\ UNCHANGED matchVars

\* get_player_decisions: the next automated player decides from the snapshot
ai_decision ==
    /\ pc = "ai_decisions"
    /\ LET pending == AIPending(players, players_in_temple, decisions)
       IN  /\ pending # <<>>
           /\ \E d \in make_decision(players[Head(pending)], game_state) :
                 decisions' = Append(decisions, [player |-> Head(pending), decision |-> d])
           /\ pc' = IF Len(pending) = 1 THEN "departures" ELSE "ai_decisions"
    /\ UNCHANGED <<gameVars, round_num, players_in_temple, game_state>>
    /\ UNCHANGED matchVars

\* apply_departures going on to the draw without looking at who is left in the temple
apply_departures_then_draw ==
    /\ pc = "departures"
    /\ LET r == process_departures(players, path, artifacts_on_path, decisions)
       IN  /\ players' = r.players
           /\ path' = r.path
           /\ artifacts_on_path' = r.artifacts_on_path
           /\ pc' = "draw"
    /\ players_in_temple' = <<>>
    /\ game_state' = NoGameState
    /\ UNCHANGED <<current_round, deck, hazard_counts, num_ai_players, round_num, decisions>>
    /\ UNCHANGED matchVars

\* apply_departures going back to the check of the end conditions without a draw
apply_departures_no_draw ==
    /\ pc = "departures"
    /\ LET r == process_departures(players, path, artifacts_on_path, decisions)
       IN  /\ players' = r.players
           /\ path' = r.path
           /\ artifacts_on_path' = r.artifacts_on_path
           /\ pc' = "loop"
    /\ players_in_temple' = <<>>
    /\ game_state' = NoGameState
    /\ UNCHANGED <<current_round, deck, hazard_counts, num_ai_players, round_num, decisions>>
    /\ UNCHANGED matchVars

\* play_round: process_departures, then the check whether anyone is still in the temple
\* (the locals of get_player_decisions are gone)
apply_departures ==
    /\ pc = "departures"
    /\ LET r == process_departures(players, path, artifacts_on_path, decisions)
       IN  /\ players' = r.players
           /\ path' = r.path
           /\ artifacts_on_path' = r.artifacts_on_path
           /\ pc' = IF InTemple(r.players) = <<>> THEN "loop" ELSE "draw"
    /\ players_in_temple' = <<>>
    /\ game_state' = NoGameState
    /\ UNCHANGED <<current_round, deck, hazard_counts, num_ai_players, round_num, decisions>>
    /\ UNCHANGED matchVars

\* play_round: the next card is drawn and processed
draw_next_card(front) ==
    /\ pc = "draw"
    /\ \E k \in DrawPositions(deck, front) :
       LET remaining_players == SeqSet(InTemple(players))
           r == process_card(players, path, hazard_counts, artifacts_on_path, deck[k])
       IN  /\ deck' = Pop(deck, k)
           /\ path' = r.path
           /\ hazard_counts' = r.hazard_counts
           /\ artifacts_on_path' = r.artifacts_on_path
           /\ IF ~r.result
              THEN /\ players' = [i \in 1..Len(players) |->
                                     IF i \in remaining_players
                                     THEN lose_round_treasures(r.players[i])
                                     ELSE r.players[i]]
                   /\ pc' = "end_hazard"
                   /\ decisions' = <<>>
              ELSE /\ players' = r.players
                   /\ pc' = "loop"
                   /\ UNCHANGED decisions
    /\ UNCHANGED <<current_round, num_ai_players, round_num, players_in_temple,
                   game_state>>
    /\ UNCHANGED matchVars

RoundEnded == pc \in {"end_first_card", "end_all_left", "end_deck_empty", "end_hazard"}

\* next_round with the rounds loop running one round more
next_round_one_more ==
    /\ RoundEnded
    /\ round_num <= MAX_ROUNDS
    /\ round_num' = round_num + 1
    /\ pc' = "play_round"
    /\ UNCHANGED <<gameVars, players_in_temple, decisions, game_state>>
    /\ UNCHANGED matchVars

\* play_game: a round returned True and is not the last one; the loop goes on
next_round ==
    /\ RoundEnded
    /\ round_num < MAX_ROUNDS
    /\ round_num' = round_num + 1
    /\ pc' = "play_round"
    /\ UNCHANGED <<gameVars, players_in_temple, decisions, game_state>>
    /\ UNCHANGED matchVars

\* play_game: the rounds loop is over; display_final_scores scores every player and
\* returns the winner
final_scores ==
    /\ RoundEnded
    /\ round_num = MAX_ROUNDS
    /\ LET r == display_final_scores(players)
       IN  /\ players' = r.players
           /\ winner' = r.winner
    /\ pc' = "save_leaderboard"
    /\ UNCHANGED <<current_round, deck, path, hazard_counts, artifacts_on_path,
                   num_ai_players, round_num, players_in_temple, decisions, game_state,
                   leaderboard, io_log, args_players, name_call>>

\* play_game: self.save_leaderboard(winner)
save_winner(faults) ==
    /\ pc = "save_leaderboard"
    /\ \E fault \in faults :
       LET r == save_leaderboard(leaderboard, players[winner], fault)
       IN  /\ leaderboard' = r.file
           /\ io_log' = io_log \o r.io
    /\ pc' = "display_leaderboard"
    /\ UNCHANGED <<gameVars, round_num, players_in_temple, decisions, game_state, winner,
                   args_players, name_call>>

\* play_game: self.display_leaderboard() reads the file when it exists
display_leaderboard(faults) ==
    /\ pc = "display_leaderboard"
    /\ \E fault \in faults : io_log' = io_log \o display_leaderboard_io(leaderboard, fault)
    /\ pc' = "game_over"
    /\ UNCHANGED <<gameVars, round_num, players_in_temple, decisions, game_state, winner,
                   leaderboard, args_players, name_call>>

\* play_game returns after a complete match and main keeps the Game it played
game_over_same_game ==
    /\ pc = "game_over"
    /\ pc' = "menu"
    /\ round_num' = 0
    /\ players_in_temple' = <<>>
    /\ decisions' = <<>>
    /\ game_state' = NoGameState
    /\ winner' = 0
    /\ io_log' = <<>>
    /\ UNCHANGED <<gameVars, leaderboard, args_players, name_call>>

\* play_game returns after a complete match: main builds a new Game for a replay
game_over ==
    /\ pc = "game_over"
    /\ players' = <<>>
    /\ current_round' = 0
    /\ deck' = <<>>
    /\ path' = <<>>
    /\ hazard_counts' = NoHazards
    /\ artifacts_on_path' = <<>>
    /\ pc' = "menu"
    /\ round_num' = 0
    /\ players_in_temple' = <<>>
    /\ decisions' = <<>>
    /\ game_state' = NoGameState
    /\ winner' = 0
    /\ io_log' = <<>>
    /\ UNCHANGED <<num_ai_players, leaderboard, args_players, name_call>>

\* play_game leaving the rounds loop on a quit and going on to the final scores
quit_game_scored ==
    /\ pc = "quit"
    /\ LET r == display_final_scores(players)
       IN  /\ players' = r.players
           /\ winner' = r.winner
    /\ pc' = "save_leaderboard"
    /\ UNCHANGED <<current_round, deck, path, hazard_counts, artifacts_on_path,
                   num_ai_players, round_num, players_in_temple, decisions, game_state,
                   leaderboard, io_log, args_players, name_call>>

\* play_round returned False: play_game returns, main builds a new Game for a replay
quit_game ==
    /\ pc = "quit"
    /\ players' = <<>>
    /\ current_round' = 0
    /\ deck' = <<>>
    /\ path' = <<>>
    /\ hazard_counts' = NoHazards
    /\ artifacts_on_path' = <<>>
    /\ pc' = "menu"
    /\ round_num' = 0
    /\ players_in_temple' = <<>>
    /\ decisions' = <<>>
    /\ game_state' = NoGameState
    /\ UNCHANGED num_ai_players
    /\ UNCHANGED matchVars

\* the first round of a match, in depth (in the first round make_decision can return
\* both decisions whatever the risk tolerance, so one tolerance is explored)
Next ==
    \/ play_game({AI_RISK_TOLERANCE_MAX})
    \/ setup_round(ExploredDeck)
    \/ draw_first_card(FALSE)
    \/ check_end_conditions
    \/ get_human_decision
    \/ ai_decision
    \/ apply_departures
    \/ draw_next_card(FALSE)
    \/ quit_game

Spec == Init /\ [][Next]_vars

\* all the rounds of a match, with a small deck (RoundsDeck holds no treasure card)
NextRounds ==
    \/ play_game(RiskTolerances)
    \/ setup_round(RoundsDeck)
    \/ draw_first_card(FALSE)
    \/ check_end_conditions
    \/ get_human_decision
    \/ ai_decision
    \/ apply_departures
    \/ draw_next_card(FALSE)
    \/ next_round
    \/ final_scores
    \/ save_winner(NoFaults)
    \/ display_leaderboard(NoFaults)
    \/ game_over
    \/ quit_game

SpecRounds == Init /\ [][NextRounds]_vars

\* the first round of a match on a part of the deck that runs out (ShortDeck), with the
\* order of the deck fixed by the shuffle
NextDeck ==
    \/ play_game({AI_RISK_TOLERANCE_MAX})
    \/ \E shuffled \in Shuffles(ShortDeck) : setup_round(shuffled)
    \/ draw_first_card(TRUE)
    \/ check_end_conditions
    \/ get_human_decision
    \/ ai_decision
    \/ apply_departures
    \/ draw_next_card(TRUE)
    \/ quit_game

SpecDeck == Init /\ [][NextDeck]_vars

\* play_game about to start the last round: the round before ended with every player
\* out of the temple after a hazard and an artifact nobody took, and the players hold
\* what they banked so far
InitLast ==
    /\ args_players = NumAI
    /\ num_ai_players = ClampAI(validate_player_count(args_players))
    /\ \E s \in [1..(1 + num_ai_players) -> Standings] :
          players = [i \in 1..(1 + num_ai_players) |->
                        [(IF i = 1 THEN Player("Explorer", TRUE, 0)
                          ELSE Player(DEFAULT_AI_NAMES[i - 1], FALSE, AI_RISK_TOLERANCE_MAX))
                         EXCEPT !.tent_treasures["TURQUOISE"] = s[i][1],
                                !.artifacts = s[i][2],
                                !.in_temple = FALSE]]
    /\ current_round = MAX_ROUNDS - 1
    /\ round_num = MAX_ROUNDS
    /\ pc = "play_round"
    /\ path = <<Card("hazard", 0, "Snake"), Card("artifact", 0, "None")>>
    /\ deck = <<Card("hazard", 0, "Snake")>>
    /\ hazard_counts = [NoHazards EXCEPT !["Snake"] = 1]
    /\ artifacts_on_path = <<Card("artifact", 0, "None")>>
    /\ players_in_temple = <<>>
    /\ decisions = <<>>
    /\ game_state = NoGameState
    /\ winner = 0
    /\ leaderboard = NoFile
    /\ io_log = <<>>
    /\ name_call = NoNameCall

NextLast ==
    \/ setup_round(LastDeck)
    \/ draw_first_card(FALSE)
    \/ check_end_conditions
    \/ get_human_decision
    \/ ai_decision
    \/ apply_departures
    \/ draw_next_card(FALSE)
    \/ final_scores
    \/ save_winner(NoFaults)
    \/ display_leaderboard(NoFaults)
    \/ game_over
    \/ quit_game

SpecLast == InitLast /\ [][NextLast]_vars

\* the last round of a match as in SpecLast, then the menu again and the first round of
\* the next match, whatever the leaderboard file holds by then
NextReplay ==
    \/ setup_round(LastDeck)
    \/ draw_first_card(FALSE)
    \/ check_end_conditions
    \/ get_human_decision
    \/ ai_decision
    \/ apply_departures
    \/ draw_next_card(FALSE)
    \/ final_scores
    \/ save_winner(NoFaults)
    \/ display_leaderboard(NoFaults)
    \/ game_over
    \/ quit_game
    \/ start_match({AI_RISK_TOLERANCE_MAX})

SpecReplay == InitLast /\ [][NextReplay]_vars

\* the methods of Player as pure functions: the first player of the list is any player
\* of the bounded input sets, and the methods are called on it in any order
PlayerCalls == {"player", "calculate_score", "move_round_treasures_to_tent"}

InitPlayer ==
    /\ args_players = NumAI
    /\ num_ai_players = ClampAI(validate_player_count(args_players))
    /\ \E tent \in [TreasureType -> UnitTentAmounts],
          store \in [TreasureType -> UnitRoundAmounts],
          n \in UnitArtifacts, inside \in BOOLEAN :
          players = <<[Player("Explorer", TRUE, 0) EXCEPT
                          !.tent_treasures = tent, !.round_treasures = store,
                          !.artifacts = n, !.in_temple = inside]>>
                    \o [i \in 1..num_ai_players |->
                           Player(DEFAULT_AI_NAMES[i], FALSE, AI_RISK_TOLERANCE_MAX)]
    /\ current_round = 0
    /\ deck = <<>>
    /\ path = <<>>
    /\ hazard_counts = NoHazards
    /\ artifacts_on_path = <<>>
    /\ pc = "player"
    /\ round_num = 0
    /\ players_in_temple = <<>>
    /\ decisions = <<>>
    /\ game_state = NoGameState
    /\ winner = 0
    /\ leaderboard = NoFile
    /\ io_log = <<>>
    /\ name_call = NoNameCall

\* player.calculate_score() on the first player
calculate_score_call ==
    /\ pc \in PlayerCalls
    /\ players' = [players EXCEPT ![1] = calculate_score(@)]
    /\ pc' = "calculate_score"
    /\ UNCHANGED <<current_round, deck, path, hazard_counts, artifacts_on_path,
                   num_ai_players, round_num, players_in_temple, decisions, game_state>>
    /\ UNCHANGED matchVars

\* player.move_round_treasures_to_tent() on the first player
move_round_treasures_to_tent_call ==
    /\ pc \in PlayerCalls
    /\ players' = [players EXCEPT ![1] = move_round_treasures_to_tent(@)]
    /\ pc' = "move_round_treasures_to_tent"
    /\ UNCHANGED <<current_round, deck, path, hazard_counts, artifacts_on_path,
                   num_ai_players, round_num, players_in_temple, decisions, game_state>>
    /\ UNCHANGED matchVars

NextPlayer ==
    \/ calculate_score_call
    \/ move_round_treasures_to_tent_call

SpecPlayer == InitPlayer /\ [][NextPlayer]_vars

\* play_game about to start the last round, as in InitLast, while the leaderboard file
\* is absent, holds entries written by earlier matches, or does not parse
InitBoard ==
    /\ args_players = NumAI
    /\ num_ai_players = ClampAI(validate_player_count(args_players))
    /\ \E s \in [1..(1 + num_ai_players) -> BoardStandings] :
          players = [i \in 1..(1 + num_ai_players) |->
                        [(IF i = 1 THEN Player("Explorer", TRUE, 0)
                          ELSE Player(DEFAULT_AI_NAMES[i - 1], FALSE, AI_RISK_TOLERANCE_MAX))
                         EXCEPT !.tent_treasures["TURQUOISE"] = s[i][1],
                                !.artifacts = s[i][2],
                                !.in_temple = FALSE]]
    /\ current_round = MAX_ROUNDS - 1
    /\ round_num = MAX_ROUNDS
    /\ pc = "play_round"
    /\ path = <<Card("hazard", 0, "Snake"), Card("artifact", 0, "None")>>
    /\ deck = <<Card("hazard", 0, "Snake")>>
    /\ hazard_counts = [NoHazards EXCEPT !["Snake"] = 1]
    /\ artifacts_on_path = <<Card("artifact", 0, "None")>>
    /\ players_in_temple = <<>>
    /\ decisions = <<>>
    /\ game_state = NoGameState
    /\ winner = 0
    /\ leaderboard \in {NoFile, NotJSON}
                       \cup {JSONFile(SubSeq(StoredEntries, 1, n)) : n \in StoredLengths}
    /\ io_log = <<>>
    /\ name_call = NoNameCall

\* the last round, the final scores and the leaderboard, with the accesses to the file
\* failing or not
NextBoard ==
    \/ setup_round(RoundsDeck)
    \/ draw_first_card(FALSE)
    \/ check_end_conditions
    \/ get_human_decision
    \/ ai_decision
    \/ apply_departures
    \/ draw_next_card(FALSE)
    \/ final_scores
    \/ save_winner(IOFaults)
    \/ display_leaderboard(IOFaults)
    \/ game_over
    \/ quit_game

SpecBoard == InitBoard /\ [][NextBoard]_vars

\* main with -p 1: the game of the human and one automated player is at the menu
InitFull ==
    /\ players = <<>>
    /\ current_round = 0
    /\ deck = <<>>
    /\ path = <<>>
    /\ hazard_counts = NoHazards
    /\ artifacts_on_path = <<>>
    /\ args_players = MIN_PLAYERS
    /\ num_ai_players = ClampAI(validate_player_count(args_players))
    /\ pc = "menu"
    /\ round_num = 0
    /\ players_in_temple = <<>>
    /\ decisions = <<>>
    /\ game_state = NoGameState
    /\ winner = 0
    /\ leaderboard = NoFile
    /\ io_log = <<>>
    /\ name_call = NoNameCall

\* the first round of a match with the whole deck, shuffled
NextFull ==
    \/ play_game({AI_RISK_TOLERANCE_MAX})
    \/ \E shuffled \in FullDeckShuffles : setup_round(shuffled)
    \/ draw_first_card(TRUE)
    \/ check_end_conditions
    \/ get_human_decision
    \/ ai_decision
    \/ apply_departures
    \/ draw_next_card(TRUE)
    \/ quit_game

SpecFull == InitFull /\ [][NextFull]_vars

\* play_round runs on whenever it can take a step: each input request returns
SpecFullFair == SpecFull /\ WF_vars(NextFull)

\* the lines typed at the prompt
TypedLines ==
    UNION {[1..n -> TypedChars] : n \in ShortLine} \cup LongLines

\* setup_players (or any caller) calls get_validated_player_name(prompt, default)
InitName ==
    /\ args_players = NumAI
    /\ num_ai_players = ClampAI(validate_player_count(args_players))
    /\ players = <<>>
    /\ current_round = 0
    /\ deck = <<>>
    /\ path = <<>>
    /\ hazard_counts = NoHazards
    /\ artifacts_on_path = <<>>
    /\ pc = "name_prompt"
    /\ round_num = 0
    /\ players_in_temple = <<>>
    /\ decisions = <<>>
    /\ game_state = NoGameState
    /\ winner = 0
    /\ leaderboard = NoFile
    /\ io_log = <<>>
    /\ \E default \in NameDefaults : name_call = [NoNameCall EXCEPT !.default = default]

\* get_validated_player_name: one pass of the loop (a line is read at the prompt and
\* validated; the name is returned, or the failure is reported and the loop goes on or
\* returns the default)
prompt_name ==
    /\ pc = "name_prompt"
    /\ name_call.attempt < max_attempts
    /\ \E line \in TypedLines :
       LET raw_input == name_or_default(Strip(line, Whitespace), name_call.default)
           validated == validate_player_name(raw_input)
           remaining == max_attempts - name_call.attempt - 1
           typed == Append(name_call.typed, line)
       IN  IF validated.ok
           THEN /\ name_call' = [name_call EXCEPT !.typed = typed, !.name = validated.name]
                /\ pc' = "name_returned"
           ELSE IF remaining > 0
           THEN /\ name_call' = [name_call EXCEPT !.typed = typed, !.attempt = @ + 1]
                /\ pc' = "name_prompt"
           ELSE /\ name_call' = [name_call EXCEPT !.typed = typed,
                                                  !.name = name_call.default]
                /\ pc' = "name_returned"
    /\ UNCHANGED <<gameVars, round_num, players_in_temple, decisions, game_state, winner,
                   leaderboard, io_log, args_players>>

NextName == prompt_name

SpecName == InitName /\ [][NextName]_vars

\* main with any count given with -p: the game is at the menu
InitStart ==
    /\ players = <<>>
    /\ current_round = 0
    /\ deck = <<>>
    /\ path = <<>>
    /\ hazard_counts = NoHazards
    /\ artifacts_on_path = <<>>
    /\ args_players \in RequestedCounts
    /\ num_ai_players = ClampAI(validate_player_count(args_players))
    /\ pc = "menu"
    /\ round_num = 0
    /\ players_in_temple = <<>>
    /\ decisions = <<>>
    /\ game_state = NoGameState
    /\ winner = 0
    /\ leaderboard = NoFile
    /\ io_log = <<>>
    /\ name_call = NoNameCall

\* the start of a match up to the human's first decision, and the return to the menu
\* on a quit (the deck is shuffled)
NextStart ==
    \/ play_game(RiskTolerances)
    \/ \E shuffled \in Shuffles(RoundsDeck) : setup_round(shuffled)
    \/ draw_first_card(TRUE)
    \/ check_end_conditions
    \/ get_human_decision
    \/ quit_game

SpecStart == InitStart /\ [][NextStart]_vars

\* main without -p: args.players is DEFAULT_NUM_PLAYERS, the game is at the menu
InitDefault ==
    /\ players = <<>>
    /\ current_round = 0
    /\ deck = <<>>
    /\ path = <<>>
    /\ hazard_counts = NoHazards
    /\ artifacts_on_path = <<>>
    /\ args_players = DEFAULT_NUM_PLAYERS
    /\ num_ai_players = ClampAI(validate_player_count(args_players))
    /\ pc = "menu"
    /\ round_num = 0
    /\ players_in_temple = <<>>
    /\ decisions = <<>>
    /\ game_state = NoGameState
    /\ winner = 0
    /\ leaderboard = NoFile
    /\ io_log = <<>>
    /\ name_call = NoNameCall

\* the first round of a match of the human and three automated players
NextDefault ==
    \/ play_game({AI_RISK_TOLERANCE_MAX})
    \/ setup_round(DefaultDeck)
    \/ draw_first_card(FALSE)
    \/ check_end_conditions
    \/ get_human_decision
    \/ ai_decision
    \/ apply_departures
    \/ draw_next_card(FALSE)
    \/ quit_game

SpecDefault == InitDefault /\ [][NextDefault]_vars

----------------------------------------------------------------------------
(* Properties *)

Last(s) == s[Len(s)]
PlayerIds == 1..Len(players)
\* the step reveals a card: it is the last card of the new path
CardDrawn == Len(path') = Len(path) + 1
HazardEnd == {"end_first_card", "end_hazard"}
Turquoise(store) == store["TURQUOISE"]

\* C1: a treasure card of value v processed with n > 0 players in the temple adds v \div n
\* to the round store of each of them, leaves v % n on the card, nothing is lost or
\* created, and the players outside the temple get nothing.
C1_TreasureShare ==
    [][(CardDrawn /\ Last(path').card_type = "treasure" /\ InTemple(players) # <<>>) =>
        LET card == Last(path')
            v == card.value
            n == Len(InTemple(players))
            gain == [i \in PlayerIds |-> Turquoise(players'[i].round_treasures)
                                         - Turquoise(players[i].round_treasures)]
        IN  /\ card.remaining_treasure = v % n
            /\ \A i \in PlayerIds :
                  IF players[i].in_temple
                  THEN players'[i] = [players[i] EXCEPT
                                         !.round_treasures["TURQUOISE"] = @ + (v \div n)]
                  ELSE players'[i] = players[i]
            /\ SeqSum(gain) + card.remaining_treasure = v
            /\ (v \div n) * n + (v % n) = v
      ]_vars

\* C1 witness: a treasure card was shared by the players left in the temple with a
\* positive share and a positive remainder, while another player was outside.
C1_Witness ==
    /\ pc = "loop"
    /\ path # <<>>
    /\ Last(path).card_type = "treasure"
    /\ Last(path).remaining_treasure > 0
    /\ Last(path).value \div Len(InTemple(players)) > 0
    /\ \E i \in PlayerIds : ~players[i].in_temple
    /\ \E i \in PlayerIds : players[i].in_temple
                            /\ Turquoise(players[i].round_treasures) > 0

\* C2: a card ends the round exactly when it is a hazard whose kind's tally reaches 2; a
\* hazard whose kind is seen for the first time never ends the round, whatever the
\* tallies of the other kinds.
C2_SecondHazardEndsRound ==
    [][CardDrawn =>
        LET card == Last(path')
            h == card.hazard_type
        IN  /\ (pc' \in HazardEnd) <=> (card.card_type = "hazard" /\ hazard_counts'[h] = 2)
            /\ pc' \notin HazardEnd => pc' = "loop"
            /\ card.card_type = "hazard" =>
                  /\ hazard_counts' = [hazard_counts EXCEPT ![h] = @ + 1]
                  /\ hazard_counts[h] = 0 => pc' = "loop"
      ]_vars

\* C2 witness: the round ended on the second hazard of a kind after another kind had
\* been seen once.
C2_Witness ==
    /\ pc = "end_hazard"
    /\ \E h, g \in HazardKinds : h # g /\ hazard_counts[h] = 2 /\ hazard_counts[g] = 1

\* C3: when the card drawn is the second hazard of its kind, the players in the temple
\* end the round with an all-zero round store, no tent and no artifact count changes, and
\* the round is over: no decision is requested and no card is drawn after it.
C3_SecondHazardLosesRoundStore ==
    /\ [][(CardDrawn /\ Last(path').card_type = "hazard"
           /\ hazard_counts'[Last(path').hazard_type] >= 2) =>
            /\ pc' \in HazardEnd
            /\ \A i \in PlayerIds :
                  /\ players[i].in_temple =>
                        /\ players'[i].round_treasures = NoTreasures
                        /\ players'[i].in_temple
                  /\ players'[i].tent_treasures = players[i].tent_treasures
                  /\ players'[i].artifacts = players[i].artifacts
         ]_vars
    /\ [](pc \in HazardEnd =>
            ~ENABLED (check_end_conditions \/ get_human_decision \/ ai_decision
                      \/ apply_departures \/ draw_first_card(FALSE)
                      \/ draw_next_card(FALSE)))

\* C3 witness: the round ended on a second hazard with a player in the temple who had
\* been given a share of a treasure card.
C3_Witness ==
    /\ pc = "end_hazard"
    /\ \E i \in PlayerIds : players[i].in_temple
    /\ \E j \in 1..Len(path) : path[j].card_type = "treasure"
                               /\ path[j].value >= Len(players)

\* the departure step and its leavers
Departing == pc = "departures"
Leavers == SeqSet(LeavingPlayers(decisions))
NumLeavers == Cardinality(Leavers)
\* the share of the path treasure each leaver is due
LeaverShare == IF NumLeavers > 0 /\ PathTreasure(path) > 0
               THEN PathTreasure(path) \div NumLeavers ELSE 0
Decided(i, d) == \E j \in 1..Len(decisions) :
                    decisions[j].player = i /\ decisions[j].decision = d

\* C4: when departures are applied exactly the players who decided to leave leave: their
\* round store is added kind by kind to their tent (with their share of the path
\* treasure), their round store becomes zero and in_temple false; every other player,
\* those who decided to continue included, is unchanged.
C4_DeparturesApplied ==
    [][Departing =>
        \A i \in PlayerIds :
            IF Decided(i, FALSE)
            THEN /\ ~players'[i].in_temple
                 /\ players'[i].round_treasures = NoTreasures
                 /\ \A t \in TreasureType :
                       players'[i].tent_treasures[t] =
                           players[i].tent_treasures[t] + players[i].round_treasures[t]
                           + (IF t = "TURQUOISE" THEN LeaverShare ELSE 0)
            ELSE players'[i] = players[i]
      ]_vars

\* C4 witness: departures were applied with a leaver who banked a positive round store
\* and a player who continued and kept a positive round store.
C4_Witness ==
    /\ pc = "draw"
    /\ \E i, j \in PlayerIds :
          /\ Decided(i, FALSE) /\ ~players[i].in_temple
          /\ Turquoise(players[i].tent_treasures) > 0
          /\ players[i].round_treasures = NoTreasures
          /\ Decided(j, TRUE) /\ players[j].in_temple
          /\ Turquoise(players[j].round_treasures) > 0

\* C5: when k >= 1 players leave and the path holds S > 0 leftover treasure, each leaver's
\* tent gains S \div k on top of its banked round store, the players together gain
\* k * (S \div k), so S % k goes to nobody, and nothing is left on the path (7 with 3
\* leavers: 2 each, 1 dropped).
C5_PathTreasureSplit ==
    [][(Departing /\ NumLeavers >= 1 /\ PathTreasure(path) > 0) =>
        LET S == PathTreasure(path)
            k == NumLeavers
            wealth(ps) == SeqSum([i \in PlayerIds |->
                             Turquoise(ps[i].tent_treasures) + Turquoise(ps[i].round_treasures)])
        IN  /\ \A i \in Leavers :
                  Turquoise(players'[i].tent_treasures) =
                      Turquoise(players[i].tent_treasures)
                      + Turquoise(players[i].round_treasures) + (S \div k)
            /\ wealth(players') = wealth(players) + k * (S \div k)
            /\ wealth(players') + (S % k) = wealth(players) + S
            /\ PathTreasure(path') = 0
            /\ treasure_per_leaver(7, 3) = 2
            /\ 7 - 3 * treasure_per_leaver(7, 3) = 1
      ]_vars

\* C5 witness: every player left at the same decision point after the treasure cards 2
\* and 5 were shared by all of them: 4 was on the path, each leaver got 1 of it (and
\* holds 2 with the banked share of the 5), and the leftover 1 is gone.
C5_Witness ==
    /\ pc = "loop"
    /\ NumLeavers = Len(players)
    /\ NumLeavers >= 3
    /\ {path[j].value : j \in {m \in 1..Len(path) : path[m].card_type = "treasure"}} = {2, 5}
    /\ PathTreasure(path) = 0
    /\ \A i \in PlayerIds : Turquoise(players[i].tent_treasures) = 2

\* C6: departures with at least one leaver leave remaining_treasure = 0 on every path
\* card, also when the share of a leaver is 0; without a leaver the path is unchanged.
C6_PathCleared ==
    [][Departing =>
        IF NumLeavers >= 1
        THEN /\ Len(path') = Len(path)
             /\ \A j \in 1..Len(path) : path'[j] = [path[j] EXCEPT !.remaining_treasure = 0]
        ELSE path' = path
      ]_vars

\* C6 witness: every player left at once when only the treasure card 2 had been shared:
\* the 2 left on the path gave a share of 0 to each of the leavers, and the path is clear.
C6_Witness ==
    /\ pc = "loop"
    /\ NumLeavers = Len(players)
    /\ NumLeavers >= 3
    /\ {path[j].value : j \in {m \in 1..Len(path) : path[m].card_type = "treasure"}} = {2}
    /\ PathTreasure(path) = 0
    /\ \A i \in PlayerIds : Turquoise(players[i].tent_treasures) = 0

\* C7: artifact counts change only when departures are applied with exactly one leaver
\* and a non-empty pending list: that leaver gains the number of pending artifacts and
\* the list becomes empty; with zero or several leavers the pending list and all the
\* artifact counts are unchanged.
C7_ArtifactsToLoneLeaver ==
    /\ [][Departing =>
            IF NumLeavers = 1 /\ artifacts_on_path # <<>>
            THEN /\ artifacts_on_path' = <<>>
                 /\ \A i \in PlayerIds :
                       players'[i].artifacts =
                           players[i].artifacts
                           + (IF i \in Leavers THEN Len(artifacts_on_path) ELSE 0)
            ELSE /\ artifacts_on_path' = artifacts_on_path
                 /\ \A i \in PlayerIds : players'[i].artifacts = players[i].artifacts
         ]_vars
    /\ [][(~Departing /\ Len(players') = Len(players)) =>
            \A i \in PlayerIds : players'[i].artifacts = players[i].artifacts
         ]_vars

\* C7 witness: one player left alone and holds the artifact that was pending.
C7_Witness ==
    /\ pc \in {"draw", "loop"}
    /\ NumLeavers = 1
    /\ \A i \in Leavers : players[i].artifacts = 1
    /\ artifacts_on_path = <<>>
    /\ \E j \in 1..Len(path) : path[j].card_type = "artifact"

\* C8: pending artifacts stay pending when several players leave at once, no other step
\* of the round removes them, and the next departure of a single player awards them.
C8_ArtifactsCarried ==
    /\ [][(Departing /\ NumLeavers >= 2) => artifacts_on_path' = artifacts_on_path]_vars
    /\ [][(pc \notin {"departures", "play_round", "quit"}) =>
            /\ Len(artifacts_on_path') >= Len(artifacts_on_path)
            /\ SubSeq(artifacts_on_path', 1, Len(artifacts_on_path)) = artifacts_on_path
         ]_vars
    /\ [][(Departing /\ NumLeavers = 1 /\ artifacts_on_path # <<>>) =>
            /\ \A i \in Leavers :
                  players'[i].artifacts = players[i].artifacts + Len(artifacts_on_path)
            /\ artifacts_on_path' = <<>>
         ]_vars

\* C8 witness: the artifact was the first card of the round, the other players left
\* earlier without getting it (so they left together), and the last player has just left
\* alone and holds it.
C8_Witness ==
    /\ pc = "loop"
    /\ path # <<>>
    /\ path[1].card_type = "artifact"
    /\ Len(decisions) = 1
    /\ NumLeavers = 1
    /\ Len(players) >= 3
    /\ \A i \in PlayerIds : ~players[i].in_temple
    /\ \A i \in PlayerIds : players[i].artifacts = (IF i \in Leavers THEN 1 ELSE 0)

\* the number of artifact cards revealed in the current round
ArtifactsRevealed == Cardinality({j \in 1..Len(path) : path[j].card_type = "artifact"})
TotalArtifacts(ps) == SeqSum([i \in 1..Len(ps) |-> ps[i].artifacts])

\* C9: artifacts pending at the end of a round are forfeited: the pending list is empty
\* when a round starts and holds only artifacts revealed in the current round, and the
\* artifacts a departure awards are artifacts of the current round's path.
C9_PendingArtifactsForfeited ==
    /\ [](pc = "first_card" => artifacts_on_path = <<>>)
    /\ [](pc \notin {"menu", "play_round"} =>
             /\ Len(artifacts_on_path) <= ArtifactsRevealed
             /\ \A j \in 1..Len(artifacts_on_path) : artifacts_on_path[j] \in SeqSet(path))
    /\ [][(pc = "play_round" /\ Len(players') = Len(players)) =>
            /\ artifacts_on_path' = <<>>
            /\ TotalArtifacts(players') = TotalArtifacts(players)
         ]_vars
    /\ [][Departing =>
            TotalArtifacts(players') - TotalArtifacts(players) <= ArtifactsRevealed
         ]_vars

\* C9 witness: a round ended with the artifact pending and awarded to nobody, and the
\* match has gone on to the next round, whose setup_round is about to run.
C9_Witness ==
    /\ pc = "play_round"
    /\ round_num >= 2
    /\ current_round = round_num - 1
    /\ artifacts_on_path # <<>>
    /\ TotalArtifacts(players) = 0

\* C10: while the decisions of a decision point are collected no player changes; the
\* snapshot given to the automated players holds the hazard tally, the number of players
\* in the temple and the round number and nothing else, and is the same for all of them;
\* departures are applied only when every player in the temple has decided, once each.
C10_DecisionsBeforeDepartures ==
    /\ [][(pc \in {"human_decision", "ai_decisions"}) =>
            /\ players' = players
            /\ UNCHANGED <<path, hazard_counts, artifacts_on_path, current_round>>
         ]_vars
    /\ [](pc = "ai_decisions" =>
             /\ game_state = [hazard_counts |-> hazard_counts,
                              players_remaining |-> Len(InTemple(players)),
                              round |-> current_round]
             /\ DOMAIN game_state = {"hazard_counts", "players_remaining", "round"})
    /\ [][(pc = "ai_decisions" /\ pc' = "ai_decisions") => game_state' = game_state]_vars
    /\ [](Departing =>
             /\ {decisions[j].player : j \in 1..Len(decisions)} = SeqSet(InTemple(players))
             /\ Len(decisions) = Len(InTemple(players)))

\* C10 witness: an automated player is about to decide while a player whose decision to
\* leave is already collected is still in the temple.
C10_Witness ==
    /\ pc = "ai_decisions"
    /\ Len(decisions) >= 2
    /\ \E i \in PlayerIds : Decided(i, FALSE) /\ players[i].in_temple
                            /\ Turquoise(players[i].round_treasures) > 0

\* C11: a card is never drawn from an empty deck: whenever play_round is about to remove
\* the first card of the deck (deck.pop(0) after the departures), the deck holds at least
\* one card, also in the rounds in which the deck runs out.
C11_NoDrawFromEmptyDeck == pc = "draw" => deck # <<>>

\* C11 witness: the last card of the deck is about to be drawn with players in the temple.
C11_Witness ==
    /\ pc = "draw"
    /\ Len(deck) = 1
    /\ InTemple(players) # <<>>

DecisionPoint == {"human_decision", "ai_decisions"}

\* C12: at the top of the loop the round ends with AllLeft when nobody is in the temple,
\* else with DeckExhausted when the deck is empty, and only otherwise decisions are
\* collected; a decision is requested only with a player in the temple and a card in the
\* deck; when the departures empty the temple the engine goes back to the check without
\* drawing, and no card is ever drawn with nobody in the temple.
C12_EndConditionsInOrder ==
    [][/\ (pc = "loop" /\ InTemple(players) = <<>>) => pc' = "end_all_left"
       /\ (pc = "loop" /\ InTemple(players) # <<>> /\ deck = <<>>) => pc' = "end_deck_empty"
       /\ (pc = "loop" /\ InTemple(players) # <<>> /\ deck # <<>>) =>
             /\ pc' \in DecisionPoint
             /\ players_in_temple' = InTemple(players)
       /\ pc' \in DecisionPoint => InTemple(players') # <<>> /\ deck' # <<>>
       /\ pc \in DecisionPoint => pc' \in DecisionPoint \cup {"departures", "quit"}
       /\ (pc = "departures" /\ InTemple(players') = <<>>) => pc' = "loop" /\ ~CardDrawn
       /\ (pc = "departures" /\ InTemple(players') # <<>>) => pc' = "draw" /\ ~CardDrawn
       /\ CardDrawn => InTemple(players) # <<>> /\ pc \in {"first_card", "draw"}
      ]_vars

\* C12 witness: the players who were still in the temple all left at one decision point
\* after two cards, and the round ended with AllLeft while cards remained in the deck.
C12_Witness ==
    /\ pc = "end_all_left"
    /\ Len(path) = 2
    /\ deck # <<>>
    /\ \E i \in PlayerIds : players[i].tent_treasures["TURQUOISE"] > 0

\* C13: when the human answers quit at a decision point, the step applies no decision
\* and changes no field of the game; the match is then over: the only step that follows
\* hands control back to the menu with a new game, no card is drawn, no round is set up,
\* every total_score is still 0, no winner is chosen, and the leaderboard file is
\* neither read nor written.
C13_QuitEndsMatch ==
    [][/\ (pc' = "quit" /\ pc # "quit") =>
             /\ pc = "human_decision"
             /\ decisions = <<>>
             /\ UNCHANGED <<gameVars, round_num, decisions, matchVars>>
       /\ pc = "quit" =>
             /\ \A i \in PlayerIds : players[i].total_score = 0
             /\ winner = 0
             /\ io_log = <<>>
             /\ pc' = "menu"
             /\ ~CardDrawn
             /\ current_round' = 0 /\ round_num' = 0 /\ players' = <<>>
             /\ UNCHANGED matchVars
      ]_vars

\* C13 witness: the human quits in the third round while a player holds an artifact and
\* the automated players are still to decide.
C13_Witness ==
    /\ pc = "quit"
    /\ current_round = 3
    /\ path # <<>>
    /\ \E i \in PlayerIds : players[i].artifacts > 0
    /\ \E i \in PlayerIds : ~players[i].is_human /\ players[i].in_temple

\* the step computes a score or chooses the winner
ScoresComputed ==
    \/ winner' # winner /\ winner' # 0
    \/ /\ Len(players') = Len(players)
       /\ \E i \in PlayerIds : players'[i].total_score # players[i].total_score

\* C14: without a quit the rounds are set up one after the other with the numbers 1..5
\* (the round counter grows by one per round, equals the loop variable and never exceeds
\* MAX_ROUNDS); a round that ends before the fifth is followed by the next round with
\* no score computed; when the fifth round has ended every player's score is computed,
\* in one step and from scores that are still 0, and that is the only step that computes
\* a score; the winner is then handed to save_leaderboard.
C14_FiveRoundsThenScores ==
    [][/\ current_round' <= MAX_ROUNDS /\ round_num' <= MAX_ROUNDS
       /\ current_round' # current_round /\ current_round' # 0 =>
             /\ pc = "play_round"
             /\ current_round' = current_round + 1
             /\ current_round' = round_num
       /\ (RoundEnded /\ round_num < MAX_ROUNDS) =>
             /\ pc' = "play_round"
             /\ round_num' = round_num + 1
             /\ current_round = round_num
             /\ ~ScoresComputed
       /\ (RoundEnded /\ round_num = MAX_ROUNDS) =>
             /\ current_round = MAX_ROUNDS
             /\ \A i \in PlayerIds : players'[i] = calculate_score(players[i])
             /\ winner' \in PlayerIds
             /\ pc' = "save_leaderboard"
       /\ ScoresComputed =>
             /\ RoundEnded /\ round_num = MAX_ROUNDS
             /\ winner = 0
             /\ \A i \in PlayerIds : players[i].total_score = 0
       /\ pc = "save_leaderboard" =>
             /\ winner \in PlayerIds
             /\ leaderboard' = save_leaderboard(leaderboard, players[winner], "none").file
             /\ pc' = "display_leaderboard"
      ]_vars

\* C14 witness: the fifth round has ended, the scores are computed (the winner holds
\* artifacts of both tiers) and the winner is about to be handed to save_leaderboard.
C14_Witness ==
    /\ pc = "save_leaderboard"
    /\ current_round = MAX_ROUNDS
    /\ winner # 0
    /\ players[winner].artifacts > ARTIFACT_FIRST_TIER_COUNT
    /\ players[winner].total_score = artifact_score(players[winner].artifacts)
    /\ \E i \in PlayerIds : i # winner /\ players[i].total_score > 0

\* a card as it left create_deck (remaining_treasure is the only field the engine writes)
AsBuilt(card) == [card EXCEPT !.remaining_treasure = 0]
\* the path followed by the deck, as cards of create_deck
RoundOrder(pa, d) == [i \in 1..Len(pa) |-> AsBuilt(pa[i])] \o d
CountOf(cards, c) == Cardinality({i \in 1..Len(cards) : cards[i] = c})
InRound == {"first_card", "loop", "human_decision", "ai_decisions", "departures", "draw",
            "quit", "end_first_card", "end_all_left", "end_deck_empty", "end_hazard"}

\* the population of create_deck: 27 cards, the 16 treasure cards first with the values
\* 1,2,3,4,5,5,6,...,15, two hazard cards of each of the 5 kinds, 1 artifact
FullPopulation ==
    /\ Len(create_deck) = 27
    /\ [i \in 1..16 |-> create_deck[i].value]
          = <<1, 2, 3, 4, 5, 5, 6, 7, 8, 9, 10, 11, 12, 13, 14, 15>>
    /\ \A i \in 1..16 : create_deck[i] = Card("treasure", create_deck[i].value, "None")
    /\ Cardinality(HazardKinds) = 5
    /\ \A h \in HazardKinds : CountOf(create_deck, Card("hazard", 0, h)) = 2
    /\ CountOf(create_deck, Card("artifact", 0, "None")) = 1
    /\ \A c \in SeqSet(ShortDeck) : CountOf(ShortDeck, c) <= CountOf(create_deck, c)

\* C19: create_deck builds the fixed 27-card population; setup_round installs a shuffle
\* of the population with an empty path; from then on, all through the round, the path
\* (its cards as built) followed by the deck is that shuffled order, so the two together
\* always hold exactly the population and len(deck) + len(path) is its size; a draw moves
\* the front card of the deck to the end of the path.
C19_DeckAndPathArePopulation ==
    [][/\ FullPopulation
       /\ pc = "play_round" =>
             /\ path' = <<>>
             /\ deck' \in Shuffles(ShortDeck)
       /\ (pc \in InRound /\ pc' \in InRound) =>
             /\ RoundOrder(path', deck') = RoundOrder(path, deck)
             /\ RoundOrder(path', deck') \in Shuffles(ShortDeck)
             /\ Len(deck') + Len(path') = Len(ShortDeck)
             /\ \A c \in SeqSet(ShortDeck) :
                   CountOf(RoundOrder(path', deck'), c) = CountOf(ShortDeck, c)
       /\ CardDrawn =>
             /\ deck # <<>>
             /\ AsBuilt(Last(path')) = Head(deck)
             /\ deck' = Tail(deck)
      ]_vars

\* C19 witness: two cards are on the path, one of them a treasure card that holds a
\* remainder, and the last card of the shuffled order is still in the deck.
C19_Witness ==
    /\ pc = "loop"
    /\ Len(path) = 2
    /\ Len(deck) = 1
    /\ \E i \in 1..Len(path) : path[i].remaining_treasure > 0
    /\ RoundOrder(path, deck) \in Shuffles(ShortDeck)

Scored == {"save_leaderboard", "display_leaderboard", "game_over"}

\* C15: once the final scores are computed, the winner is a player of the match whose
\* (total_score, artifacts) is lexicographically greatest: no player has a higher
\* total_score, and no player with the same total_score has more artifacts.
C15_WinnerIsGreatest ==
    pc \in Scored =>
        /\ winner \in PlayerIds
        /\ \A j \in PlayerIds :
              /\ players[j].total_score <= players[winner].total_score
              /\ players[j].total_score = players[winner].total_score =>
                    players[j].artifacts <= players[winner].artifacts

\* C15 witness: the winner comes after, in the list, a player with the same total_score
\* and fewer artifacts (the artifacts decide), and a third player scores less.
C15_Witness ==
    /\ pc = "save_leaderboard"
    /\ winner \in PlayerIds
    /\ \E j \in PlayerIds :
          /\ j < winner
          /\ players[j].total_score = players[winner].total_score
          /\ players[j].artifacts < players[winner].artifacts
    /\ \E j \in PlayerIds : players[j].total_score < players[winner].total_score

\* C17: setup_round adds exactly 1 to the round counter, installs a fresh deck (a shuffle
\* of the cards create_deck builds, 27 for the full population), empties the path, the
\* hazard tally and the pending artifacts, and leaves every player in the temple with an
\* all-zero round store and with every other field (tent treasures, artifacts, score) as
\* it was; nothing else changes.
C17_SetupRoundFrame ==
    [][pc = "play_round" =>
          /\ current_round' = current_round + 1
          /\ deck' \in Shuffles(LastDeck)
          /\ Len(create_deck) = 27
          /\ \A c \in SeqSet(deck') : CountOf(deck', c) <= CountOf(create_deck, c)
          /\ path' = <<>>
          /\ hazard_counts' = NoHazards
          /\ artifacts_on_path' = <<>>
          /\ Len(players') = Len(players)
          /\ \A i \in PlayerIds :
                /\ players'[i].in_temple
                /\ players'[i].round_treasures = NoTreasures
                /\ players'[i].tent_treasures = players[i].tent_treasures
                /\ players'[i].artifacts = players[i].artifacts
                /\ players'[i] = [players[i] EXCEPT !.in_temple = TRUE,
                                                    !.round_treasures = NoTreasures]
          /\ UNCHANGED <<round_num, num_ai_players, matchVars>>
      ]_vars

\* C17 witness: the last round has just been set up over the remains of the round before
\* (players out of the temple, a hazard counted, an artifact pending), for players who
\* hold treasure in the tent and artifacts.
C17_Witness ==
    /\ pc = "first_card"
    /\ current_round = MAX_ROUNDS
    /\ deck = LastDeck /\ path = <<>> /\ artifacts_on_path = <<>>
    /\ \A i \in PlayerIds : players[i].in_temple
    /\ \E i \in PlayerIds : players[i].tent_treasures["TURQUOISE"] > 0
    /\ \E i \in PlayerIds : players[i].artifacts > 0

StoreEmpty(p) == p.round_treasures = NoTreasures

\* C18: the round store of every player is all-zero when a round has been set up, the
\* round store of a player is all-zero right after the departure that moved it to the
\* tent, the round store of every player is all-zero when a hazard has ended the round;
\* and in every state a player who is not in the temple has an all-zero round store.
C18_RoundStoreCleared ==
    [][/\ \A i \in PlayerIds : ~players[i].in_temple => StoreEmpty(players[i])
       /\ \A i \in 1..Len(players') : ~players'[i].in_temple => StoreEmpty(players'[i])
       /\ pc = "play_round" => \A i \in PlayerIds : StoreEmpty(players'[i])
       /\ Departing => \A i \in Leavers :
             /\ StoreEmpty(players'[i])
             /\ \A t \in TreasureType :
                   players'[i].tent_treasures[t]
                      >= players[i].tent_treasures[t] + players[i].round_treasures[t]
       /\ pc' \in HazardEnd => \A i \in PlayerIds : StoreEmpty(players'[i])
      ]_vars

\* C18 witness: a player left with a share of the treasure card, which is now in its
\* tent, while a player who stayed in the temple still holds its share in the round
\* store.
C18_Witness ==
    /\ pc = "draw"
    /\ \E i, j \in PlayerIds :
          /\ ~players[i].in_temple
          /\ StoreEmpty(players[i])
          /\ players[i].tent_treasures["TURQUOISE"] \in {1, 6}
          /\ players[j].in_temple
          /\ players[j].round_treasures["TURQUOISE"] > 0

\* the score of the claim: tent[Turquoise]*1 + tent[Obsidian]*5 + tent[Gold]*10 plus
\* 5n for n <= 3 artifacts and 15 + 10(n - 3) for more
ClaimedScore(p) ==
    p.tent_treasures["TURQUOISE"] * 1 + p.tent_treasures["OBSIDIAN"] * 5
    + p.tent_treasures["GOLD"] * 10
    + (IF p.artifacts <= 3 THEN 5 * p.artifacts ELSE 15 + 10 * (p.artifacts - 3))

\* C16: a call of calculate_score sets total_score to the claimed score and changes no
\* other field of the player (nor any other player); 3 artifacts and an empty tent score
\* 15, 4 score 25, the tent {Turquoise 3, Obsidian 1, Gold 0} with 5 artifacts scores 43;
\* the result is the same whatever the round store, in_temple and the former total_score
\* are, and a second call changes nothing.
C16_CalculateScore ==
    [][pc' = "calculate_score" =>
          LET p == players[1]
              q == players'[1]
          IN  /\ players' = [players EXCEPT ![1] = [p EXCEPT !.total_score = ClaimedScore(p)]]
              /\ calculate_score(p).total_score = q.total_score
              /\ (p.tent_treasures = NoTreasures /\ p.artifacts = 3) => q.total_score = 15
              /\ (p.tent_treasures = NoTreasures /\ p.artifacts = 4) => q.total_score = 25
              /\ (/\ p.tent_treasures["TURQUOISE"] = 3 /\ p.tent_treasures["OBSIDIAN"] = 1
                  /\ p.tent_treasures["GOLD"] = 0 /\ p.artifacts = 5) => q.total_score = 43
              /\ \A store \in [TreasureType -> UnitRoundAmounts], inside \in BOOLEAN :
                    calculate_score([p EXCEPT !.round_treasures = store,
                                              !.in_temple = inside,
                                              !.total_score = 0]).total_score
                       = q.total_score
              /\ calculate_score(q) = q
      ]_vars

\* C16 witness: calculate_score has returned 43 for a player with the tent {Turquoise 3,
\* Obsidian 1, Gold 0} and 5 artifacts, who is out of the temple and holds a round
\* store.
C16_Witness ==
    /\ pc = "calculate_score"
    /\ players[1].tent_treasures = [NoTreasures EXCEPT !["TURQUOISE"] = 3, !["OBSIDIAN"] = 1]
    /\ players[1].artifacts = 5
    /\ players[1].total_score = 43
    /\ players[1].round_treasures # NoTreasures
    /\ ~players[1].in_temple

\* C20: a call of move_round_treasures_to_tent adds the round store to the tent kind by
\* kind and zeroes it; calling it again on the result changes nothing: the tent totals
\* and the zero round store after the second call are those after the first call.
C20_MoveToTentIdempotent ==
    [][pc' = "move_round_treasures_to_tent" =>
          LET p == players[1]
              once == players'[1]
          IN  /\ players' = [players EXCEPT ![1] = once]
              /\ once = [p EXCEPT !.tent_treasures =
                                     [t \in TreasureType |->
                                         p.tent_treasures[t] + p.round_treasures[t]],
                                  !.round_treasures = NoTreasures]
              /\ move_round_treasures_to_tent(once) = once
              /\ pc = "move_round_treasures_to_tent" => players' = players
      ]_vars

\* C20 witness: move_round_treasures_to_tent has been called on a player who held a round
\* store of every kind; the store is in the tent and the round store is zero.
C20_Witness ==
    /\ pc = "move_round_treasures_to_tent"
    /\ players[1].round_treasures = NoTreasures
    /\ \A t \in TreasureType : players[1].tent_treasures[t] \in {2, 3, 5}
    /\ players[1].total_score = 0

\* the human left at the first decision point of the first round
HumanLeavesFirst ==
    /\ pc = "departures"
    /\ current_round = 1
    /\ Len(path) = 1
    /\ Decided(1, FALSE)
\* the human is out of the temple while the first round goes on or has ended
HumanOutInFirstRound ==
    /\ pc \in InRound
    /\ current_round = 1
    /\ players # <<>>
    /\ ~players[1].in_temple

\* C21 as stated: in a match of the human and 3 automated players, when the human leaves
\* at the first decision point of round 1 the human's tent treasure after the round is
\* the first card's value divided (whole division) by 4 if the card is a treasure, and
\* 0 if it is a hazard or the artifact, whatever the automated players decide.
C21_TentIsFirstShare ==
    [][/\ HumanLeavesFirst =>
            Turquoise(players'[1].tent_treasures) =
                IF path[1].card_type = "treasure"
                THEN path[1].value \div (1 + DEFAULT_NUM_PLAYERS) ELSE 0
       /\ (HumanOutInFirstRound /\ players' # <<>>) =>
            players'[1].tent_treasures = players[1].tent_treasures]_vars

\* C21 amended: in a match of the human and 3 automated players, when the human leaves
\* at the first decision point of round 1 together with k - 1 automated players, the
\* human's tent treasure after the round is v \div 4 + (v % 4) \div k for a first
\* treasure card of value v (the share of the card plus the human's share of what the
\* card left on the path), and 0 if the first card is a hazard or the artifact.
C21_TentIsShareAndSplit ==
    [][/\ HumanLeavesFirst =>
            /\ Len(players) = 1 + DEFAULT_NUM_PLAYERS
            /\ Turquoise(players'[1].tent_treasures) =
                  IF path[1].card_type = "treasure"
                  THEN path[1].value \div (1 + DEFAULT_NUM_PLAYERS)
                       + (path[1].value % (1 + DEFAULT_NUM_PLAYERS)) \div NumLeavers
                  ELSE 0
            /\ players'[1].tent_treasures["OBSIDIAN"] = 0
            /\ players'[1].tent_treasures["GOLD"] = 0
       /\ (HumanOutInFirstRound /\ players' # <<>>) =>
            players'[1].tent_treasures = players[1].tent_treasures]_vars

\* the human left alone after a first card of value 5 and holds 1 + 1
C21_Witness ==
    /\ HumanOutInFirstRound
    /\ RoundEnded
    /\ Len(players) = 1 + DEFAULT_NUM_PLAYERS
    /\ Len(path) >= 2
    /\ path[1].card_type = "treasure"
    /\ path[1].value = 5
    /\ Turquoise(players[1].tent_treasures) = 2
    /\ \A i \in 2..Len(players) : Turquoise(players[i].tent_treasures) = 0

\* what the step of save_leaderboard printed or did with the file
Reported == {io_log'[i] : i \in (Len(io_log) + 1)..Len(io_log')}
SaveSucceeds == pc = "save_leaderboard" /\ Reported \cap {"io_error", "json_error"} = {}
WinnerEntry == [name |-> players[winner].name, score |-> players[winner].total_score,
                artifacts |-> players[winner].artifacts]
EntryBefore(a, b) == a.score > b.score \/ (a.score = b.score /\ a.artifacts > b.artifacts)

\* C22: only a human winner is persisted. When save_leaderboard runs without an error
\* and the winner is human, the stored leaderboard becomes a well-formed file whose
\* entries are taken from the previous entries plus the winner's {name, score,
\* artifacts}, are sorted by descending score and then descending artifacts, and are
\* the first 10 of them (what is dropped sorts no earlier than the last entry kept);
\* when the winner is an automated player the stored leaderboard is left unchanged.
C22_OnlyHumanWinnerPersisted ==
    [][SaveSucceeds =>
         IF players[winner].is_human
         THEN LET all == Append(leaderboard.entries, WinnerEntry)
                  new == leaderboard'.entries
              IN  /\ leaderboard'.exists /\ leaderboard'.well_formed
                  /\ Len(new) = Min(Len(all), LEADERBOARD_MAX_ENTRIES)
                  /\ \A i \in 1..Len(new) : CountOf(new, new[i]) <= CountOf(all, new[i])
                  /\ \A i, j \in 1..Len(new) : i < j => ~EntryBefore(new[j], new[i])
                  /\ \A i \in 1..Len(all) :
                        CountOf(new, all[i]) < CountOf(all, all[i]) =>
                           ~EntryBefore(all[i], Last(new))
                  /\ "write" \in Reported
         ELSE /\ leaderboard' = leaderboard
              /\ "write" \notin Reported]_vars

\* C22 witness: a human winner with 5 points and an artifact was saved into a file of
\* 10 entries: the entry stands after the stored entries with the same key, and the
\* last stored entry is gone.
C22_Witness ==
    /\ pc = "display_leaderboard"
    /\ players[winner].is_human
    /\ Last(io_log) = "write"
    /\ Len(leaderboard.entries) = LEADERBOARD_MAX_ENTRIES
    /\ leaderboard.entries[6] = [name |-> "Explorer", score |-> 5, artifacts |-> 1]
    /\ leaderboard.entries[5] = StoredEntries[5]
    /\ leaderboard.entries[10] = StoredEntries[9]

\* C23: within a round the phases occur in a fixed order. setup_round is followed by
\* the draw of the first card, before any decision is requested; then the end
\* conditions are checked, the decisions are collected (no card is drawn and no player
\* changes meanwhile), the departures are applied, and one card is drawn and processed
\* before the end conditions are checked again. A card is drawn only in the first-card
\* phase and in the draw phase, one per phase, so exactly one card is processed between
\* two consecutive decision points: after the departures the round goes back to the
\* check without a draw only when nobody is left, and then it ends.
C23_PhasesInOrder ==
    [][/\ pc = "play_round" => pc' = "first_card" /\ path' = <<>>
       /\ pc = "first_card" =>
             /\ Len(path') = 1
             /\ pc' \in {"loop", "end_first_card"}
       /\ pc = "loop" =>
             /\ path' = path /\ players' = players
             /\ pc' \in DecisionPoint \cup {"end_all_left", "end_deck_empty"}
             /\ InTemple(players) = <<>> => pc' = "end_all_left"
       /\ pc \in DecisionPoint =>
             /\ Len(path) >= 1
             /\ path' = path /\ players' = players /\ deck' = deck
             /\ pc' \in DecisionPoint \cup {"departures", "quit"}
       /\ pc' \in DecisionPoint => pc \in DecisionPoint \cup {"loop"}
       /\ pc = "departures" =>
             /\ Len(path') = Len(path) /\ deck' = deck
             /\ pc' = IF InTemple(players') = <<>> THEN "loop" ELSE "draw"
       /\ pc = "draw" =>
             /\ Len(path') = Len(path) + 1
             /\ Len(deck') = Len(deck) - 1
             /\ pc' \in {"loop", "end_hazard"}
       /\ CardDrawn => pc \in {"first_card", "draw"}
       /\ pc' = "departures" => pc \in DecisionPoint
       /\ pc' = "draw" => pc = "departures"
      ]_vars

\* C23 witness: the third decision point of a round, with three cards on the path
C23_Witness ==
    /\ pc = "human_decision"
    /\ decisions = <<>>
    /\ Len(path) = 3
    /\ Len(InTemple(players)) < Len(players)

\* C24: all the treasure the engine credits is Turquoise: in every reachable state
\* every player holds 0 Obsidian and 0 Gold, in the round store and in the tent, so a
\* final score is the Turquoise in the tent plus the score of the artifacts.
C24_OnlyTurquoise ==
    \A i \in PlayerIds :
        /\ players[i].round_treasures["OBSIDIAN"] = 0
        /\ players[i].round_treasures["GOLD"] = 0
        /\ players[i].tent_treasures["OBSIDIAN"] = 0
        /\ players[i].tent_treasures["GOLD"] = 0
        /\ pc \in Scored =>
              players[i].total_score = Turquoise(players[i].tent_treasures)
                                       + artifact_score(players[i].artifacts)

\* C24 witness: the scores are computed and a player who banked treasure of the last
\* round (a share of the card and of what it left on the path) and holds an artifact
\* has a score made of the two.
C24_Witness ==
    /\ pc \in Scored
    /\ \E i \in PlayerIds :
          /\ Turquoise(players[i].tent_treasures) \in {1, 2, 3, 6, 7, 8}
          /\ players[i].artifacts >= 1
          /\ players[i].total_score >= 6

\* C25: whatever count of automated players is requested, the game has between 1 and
\* MAX_PLAYERS - 1 = 6 of them (a request below 1 gives 1, a request above 6 gives 6,
\* any other request is kept), so a match has exactly one human player, listed first,
\* and 2 to 7 players.
C25_PlayerCount ==
    /\ num_ai_players = (IF args_players < 1 THEN 1
                         ELSE IF args_players > 6 THEN 6 ELSE args_players)
    /\ MAX_PLAYERS - 1 = 6
    /\ players # <<>> =>
          /\ Len(players) = 1 + num_ai_players
          /\ Len(players) \in 2..MAX_PLAYERS
          /\ players[1].is_human
          /\ \A i \in 2..Len(players) : ~players[i].is_human

\* C25 witness: 8 automated players were requested and the match has 7 players
C25_Witness ==
    /\ args_players = 8
    /\ Len(players) = MAX_PLAYERS
    /\ pc = "human_decision"

\* a step of save_leaderboard or display_leaderboard that took an except clause
ErrorReported ==
    /\ pc \in {"save_leaderboard", "display_leaderboard"}
    /\ Reported \cap {"io_error", "json_error"} # {}

\* C26: an I/O error or a JSON format error while reading or writing the leaderboard is
\* reported as a message and does not abort the program: the players with their
\* computed scores and the winner are unchanged, the write is skipped (the stored
\* leaderboard is what it was), and the program goes on to the display of the
\* leaderboard and from there back to the menu.
C26_ErrorsReportedNotFatal ==
    [][/\ ErrorReported =>
             /\ players' = players
             /\ winner' = winner
             /\ leaderboard' = leaderboard
             /\ pc' = IF pc = "save_leaderboard" THEN "display_leaderboard" ELSE "game_over"
       /\ pc = "game_over" => pc' = "menu"]_vars

\* what get_validated_player_name validates when the line is typed
Entered(line) == IF Strip(line, Whitespace) = <<>> THEN name_call.default
                 ELSE Strip(line, Whitespace)
Validates(line) == validate_player_name(Entered(line)).ok
Typed == name_call.typed

\* C27: get_validated_player_name prompts at most 3 times. While it prompts, every line
\* typed so far failed validation. When it has returned, either the last line typed is
\* the first that validates (an empty line counting as the default) and the value
\* returned is its sanitized name, of 1 to 18 characters, or 3 lines were typed, none
\* validates, and the value returned is the default as supplied. No other outcome
\* exists: a validation failure leads to the next prompt or to the default.
C27_NameWithinThreePrompts ==
    /\ pc \in {"name_prompt", "name_returned"}
    /\ Len(Typed) <= 3
    /\ pc = "name_prompt" =>
          /\ Len(Typed) < 3
          /\ name_call.attempt = Len(Typed)
          /\ \A i \in 1..Len(Typed) : ~Validates(Typed[i])
    /\ pc = "name_returned" =>
          /\ Len(Typed) >= 1
          /\ \A i \in 1..(Len(Typed) - 1) : ~Validates(Typed[i])
          /\ IF Validates(Last(Typed))
             THEN /\ name_call.name = validate_player_name(Entered(Last(Typed))).name
                  /\ Len(name_call.name) \in MIN_PLAYER_NAME_LENGTH..MAX_PLAYER_NAME_LENGTH
                  /\ Head(name_call.name) \notin SpecialChars
                  /\ Last(name_call.name) \notin SpecialChars
                  /\ \A i \in 1..Len(name_call.name) :
                        name_call.name[i] \notin NonPrintable
                  /\ Strip(Last(Typed), Whitespace) = <<>> =>
                        name_call.name = validate_player_name(name_call.default).name
             ELSE /\ Len(Typed) = 3
                  /\ name_call.name = name_call.default

\* C27 witness: two lines failed validation (one empty while the default does not
\* validate, one of special characters only), and the third, longer than a name may
\* be, came back cut to 17 characters.
C27_Witness ==
    /\ pc = "name_returned"
    /\ Len(Typed) = 3
    /\ Typed[1] = <<" ">>
    /\ Typed[2] = <<"!", "!">>
    /\ Len(Typed[3]) = 20
    /\ name_call.name = [i \in 1..17 |-> "a"]

\* the card a step draws, and the players in the temple when it is drawn
DrawnCard == Last(path')
InTempleAtDraw == SeqSet(InTemple(players))

\* C30: whenever a card is drawn and processed at least one player is in the temple,
\* so the branch of distribute_treasure for an empty temple (the treasure of the card
\* is credited to nobody and not left on the card either) is never taken during a
\* match: the value of every treasure card drawn is credited in equal shares to the
\* players in the temple, and the rest stays on the card.
C30_NobodyInTempleNoDraw ==
    [][CardDrawn =>
         /\ InTempleAtDraw # {}
         /\ DrawnCard.card_type = "treasure" =>
               \E share \in 0..DrawnCard.value :
                  /\ \A i \in InTempleAtDraw :
                        Turquoise(players'[i].round_treasures)
                           = Turquoise(players[i].round_treasures) + share
                  /\ share * Cardinality(InTempleAtDraw) + DrawnCard.remaining_treasure
                        = DrawnCard.value]_vars

\* C30 witness: a treasure card was drawn for the one player left in the temple, who
\* was credited its whole value
C30_Witness ==
    /\ pc = "loop"
    /\ Len(path) >= 2
    /\ Len(InTemple(players)) = 1
    /\ Last(path).card_type = "treasure"
    /\ Last(path).remaining_treasure = 0
    /\ \E i \in PlayerIds :
          /\ players[i].in_temple
          /\ Turquoise(players[i].round_treasures) >= Last(path).value

\* the cards of the path that are hazards, and the others
HazardsOnPath == Cardinality({j \in 1..Len(path) : path[j].card_type = "hazard"})
OthersOnPath == Len(path) - HazardsOnPath

\* C28: with the 27-card deck of create_deck a round never ends by deck exhaustion.
\* While a round runs or has ended, path and deck hold the 27 cards, the path at most
\* 23 of them and the deck at least 4: the path holds at most the 16 treasure cards
\* and the artifact, and at most one hazard card of each of the 5 kinds unless the
\* round has ended on the second card of a kind, which is then the last card of the
\* path. The round ends by all players leaving, by a second hazard, or by a quit,
\* never on an empty deck.
C28_NoDeckExhaustion ==
    pc \in InRound \ {"first_card"} =>
        /\ Len(path) + Len(deck) = 27
        /\ Len(path) <= 23
        /\ Len(deck) >= 4
        /\ OthersOnPath <= 16 + 1
        /\ \A h \in HazardKinds :
              hazard_counts[h] = Cardinality({j \in 1..Len(path) :
                                    path[j].card_type = "hazard" /\ path[j].hazard_type = h})
        /\ IF pc \in HazardEnd
           THEN /\ hazard_counts[Last(path).hazard_type] = 2
                /\ \A h \in HazardKinds \ {Last(path).hazard_type} : hazard_counts[h] <= 1
           ELSE \A h \in HazardKinds : hazard_counts[h] <= 1
        /\ pc # "end_deck_empty"
        /\ RoundEnded => pc \in {"end_all_left", "end_hazard"}

\* C28 witness: the 22 cards that can be revealed without a second hazard are on the
\* path, and the 23rd card has ended the round
C28_Witness ==
    /\ pc = "end_hazard"
    /\ Len(path) = 23
    /\ Len(deck) = 4
    /\ OthersOnPath = 17

\* play_round has returned: the round has ended, or the human has quit
Returned == RoundEnded \/ pc = "quit"

\* C29: every round terminates whatever the players decide. Provided each input
\* request returns, a round that is started eventually returns. It draws at most 23
\* cards and passes at most 22 decision points: decisions are requested with 1 to 22
\* cards on the path, and from one request to the next the path grows by exactly one
\* card (the decisions leave the path alone, and after the departures either a card is
\* drawn or nobody is left and the round ends at the next check).
C29_RoundTerminates ==
    /\ [](pc \in InRound => Len(path) <= 23)
    /\ [](pc \in DecisionPoint => Len(path) \in 1..22)
    /\ [][/\ pc \in DecisionPoint \cup {"loop", "departures"} => Len(path') = Len(path)
          /\ pc = "departures" =>
                pc' = IF InTemple(players') = <<>> THEN "loop" ELSE "draw"
          /\ pc = "draw" => Len(path') = Len(path) + 1 /\ Len(deck') = Len(deck) - 1
          /\ (pc = "loop" /\ InTemple(players) = <<>>) => pc' = "end_all_left"]_vars
    /\ (pc = "play_round") ~> Returned

\* C29 witness: a round that passed 22 decision points and drew 23 cards has returned
C29_Witness ==
    /\ pc = "end_hazard"
    /\ Len(path) = 23
    /\ decisions = <<>>
    /\ \E i \in PlayerIds : players[i].in_temple

OnPath(h) == Cardinality({j \in 1..Len(path) :
                 path[j].card_type = "hazard" /\ path[j].hazard_type = h})
SeenTwice == {h \in HazardKinds : hazard_counts[h] = 2}

\* C32: in every reachable state the tally of each hazard kind is 0, 1 or 2 and equals
\* the number of hazard cards of that kind on the path; at most one kind has the tally
\* 2, and a tally of 2 exists only when the round has ended on that card (the round
\* has returned, and the next one is not set up yet): no decision is being collected,
\* no departure applied and no card about to be drawn.
C32_HazardTally ==
    /\ \A h \in HazardKinds : hazard_counts[h] \in {0, 1, 2} /\ hazard_counts[h] = OnPath(h)
    /\ Cardinality(SeenTwice) <= 1
    /\ SeenTwice # {} =>
          /\ pc \in HazardEnd \cup {"play_round"} \cup Scored
          /\ Last(path).card_type = "hazard"
          /\ Last(path).hazard_type \in SeenTwice

\* C32 witness: a round ended on the second card of a kind while the first cards of the
\* four other kinds are on the path
C32_Witness ==
    /\ pc = "end_hazard"
    /\ Cardinality(SeenTwice) = 1
    /\ Cardinality({h \in HazardKinds : hazard_counts[h] = 1}) = 4

\* the treasure the players hold (tent and round store; in the first round of a match
\* the tent is empty when the round starts, so what it holds was gained in the round),
\* the treasure left on the cards of the path, and the values of its treasure cards
TreasureHeld == SeqSum([i \in 1..Len(players) |->
                    Turquoise(players[i].tent_treasures) + players[i].tent_treasures["OBSIDIAN"]
                    + players[i].tent_treasures["GOLD"]
                    + Turquoise(players[i].round_treasures)
                    + players[i].round_treasures["OBSIDIAN"]
                    + players[i].round_treasures["GOLD"]])
TreasureRevealed == SeqSum([j \in 1..Len(path) |->
                        IF path[j].card_type = "treasure" THEN path[j].value ELSE 0])

\* C33: the engine never creates treasure. At every point of the first round of a
\* match, what the players gained in the round (tent and round store) plus what is
\* left on the cards of the path is at most the sum of the values of the treasure cards
\* on the path, and a card never holds more than its value.
C33_NoTreasureCreated ==
    (current_round = 1 /\ pc \in InRound) =>
        /\ TreasureHeld + PathTreasure(path) <= TreasureRevealed
        /\ \A j \in 1..Len(path) :
              /\ path[j].remaining_treasure >= 0
              /\ path[j].remaining_treasure <= path[j].value

\* C33 witness: both treasure cards are on the path; a player banked a share, another
\* holds one in the round store, and part of a card is still on the path
C33_Witness ==
    /\ current_round = 1
    /\ pc = "loop"
    /\ TreasureRevealed = 12
    /\ PathTreasure(path) > 0
    /\ \E i, j \in PlayerIds :
          /\ Turquoise(players[i].tent_treasures) > 0
          /\ Turquoise(players[j].round_treasures) > 0
    /\ TreasureHeld + PathTreasure(path) <= TreasureRevealed

\* a step between two states of a match that both have the players
MatchStep == players # <<>> /\ Len(players') = Len(players)
Banked(i) == /\ players'[i].tent_treasures = players[i].tent_treasures
             /\ players'[i].artifacts = players[i].artifacts

\* C34: a player's tent treasures and artifact count change only in the departure step
\* in which that player itself leaves, and never decrease. A player who has left
\* keeps exactly what it banked while later cards are drawn, later leavers split the
\* path and a later lone leaver takes the artifacts; a player who is still in the
\* temple when the round ends has the tent treasures and artifacts it had when the
\* round started (none, in the first round of a match).
C34_TentChangesOnlyOnLeaving ==
    [][MatchStep =>
         /\ \A i \in PlayerIds :
               \/ Banked(i)
               \/ /\ pc = "departures"
                  /\ players[i].in_temple /\ ~players'[i].in_temple
                  /\ Decided(i, FALSE)
                  /\ \A t \in TreasureType :
                        players'[i].tent_treasures[t] >= players[i].tent_treasures[t]
                  /\ players'[i].artifacts >= players[i].artifacts
         /\ \A i \in PlayerIds :
               (pc \in InRound /\ pc' \in InRound /\ ~players[i].in_temple) =>
                  ~players'[i].in_temple /\ Banked(i)
         /\ (pc' \in HazardEnd \cup {"end_all_left", "end_deck_empty"} /\ current_round' = 1) =>
               \A i \in PlayerIds :
                  players'[i].in_temple =>
                     /\ players'[i].tent_treasures = NoTreasures
                     /\ players'[i].artifacts = 0]_vars

\* C34 witness: the round has ended on a hazard; one player left early with a share,
\* another left later alone and took the artifact, a third was still in the temple
\* and has nothing
C34_Witness ==
    /\ pc = "end_hazard"
    /\ current_round = 1
    /\ \E i, j, k \in PlayerIds :
          /\ ~players[i].in_temple /\ Turquoise(players[i].tent_treasures) = 1
          /\ players[i].artifacts = 0
          /\ ~players[j].in_temple /\ players[j].artifacts = 1
          /\ players[k].in_temple /\ players[k].tent_treasures = NoTreasures
          /\ players[k].artifacts = 0

\* C35: at most one artifact is awarded per round. In every reachable state the list
\* of pending artifacts holds at most 1 artifact, and the artifacts the players hold,
\* together with a pending one, are at most as many as the rounds started so far,
\* hence at most MAX_ROUNDS = 5 in a match.
C35_OneArtifactPerRound ==
    /\ Len(artifacts_on_path) <= 1
    /\ \A j \in 1..Len(artifacts_on_path) : artifacts_on_path[j].card_type = "artifact"
    /\ TotalArtifacts(players) + Len(artifacts_on_path) <= current_round
    /\ current_round <= 5
    /\ TotalArtifacts(players) <= 5
    /\ \A i \in PlayerIds : players[i].artifacts >= 0

\* C35 witness: in the fifth round the players hold 5 artifacts between them, one from
\* each round
C35_Witness ==
    /\ current_round = MAX_ROUNDS
    /\ TotalArtifacts(players) = 5
    /\ artifacts_on_path = <<>>
    /\ Cardinality({i \in PlayerIds : players[i].artifacts > 0}) >= 2

\* the players no other player beats on (total_score, artifacts)
TopPlayers ==
    {i \in PlayerIds : \A j \in PlayerIds :
        /\ players[j].total_score <= players[i].total_score
        /\ players[j].total_score = players[i].total_score =>
              players[j].artifacts <= players[i].artifacts}

\* C36: winner selection is deterministic on ties. Once the final scores are computed,
\* the winner is the first, in the player list, of the players that share the greatest
\* (total_score, artifacts) pair. So a human (the first player of the list) who ties
\* with automated players on both is the winner, and save_leaderboard, when it runs
\* without an error, writes the file with the human's entry added to it (the entry is
\* kept unless the file already holds 10 entries that sort no later).
C36_FirstOfTiedPlayersWins ==
    [][/\ pc' \in Scored =>
             /\ winner' \in TopPlayers'
             /\ \A j \in TopPlayers' : winner' <= j
       /\ (pc \in Scored /\ 1 \in TopPlayers) => winner = 1 /\ players[winner].is_human
       /\ (SaveSucceeds /\ 1 \in TopPlayers) =>
             LET new == leaderboard'.entries
             IN  /\ "write" \in Reported
                 /\ leaderboard'.exists /\ leaderboard'.well_formed
                 /\ \/ CountOf(new, WinnerEntry) = CountOf(leaderboard.entries, WinnerEntry) + 1
                    \/ /\ Len(leaderboard.entries) = LEADERBOARD_MAX_ENTRIES
                       /\ Len(new) = LEADERBOARD_MAX_ENTRIES
                       /\ ~EntryBefore(WinnerEntry, Last(new))]_vars

\* C36 witness: the human and an automated player finished with 5 points and no
\* artifact each, the other player with less; the human is the winner and its entry
\* was written to the leaderboard file after the one entry stored there
C36_Witness ==
    /\ pc = "display_leaderboard"
    /\ winner = 1
    /\ Cardinality(TopPlayers) = 2
    /\ players[1].total_score = 5 /\ players[1].artifacts = 0
    /\ Last(io_log) = "write"
    /\ Len(leaderboard.entries) = 2
    /\ leaderboard.entries[2] = [name |-> players[1].name, score |-> 5, artifacts |-> 0]

\* menu choice 1 is taken: a match begins
MatchStarts == pc = "menu" /\ pc' = "play_round"
\* play_game returns to the menu, after the leaderboard was shown or on a quit
MatchEnds == pc \in {"game_over", "quit"} /\ pc' = "menu"

\* C37: every match started from the menu starts fresh. When a match ends, completed
\* or aborted by a quit, the leaderboard file is left as it is and the game is back to
\* round counter 0 with no players; the next match then begins with round counter 0,
\* an empty deck, path, hazard tally and pending-artifact list, and with newly built
\* players: the human and the automated players, each with zero tent treasures, zero
\* round treasures, zero artifacts and total_score 0. Starting the match does not
\* touch the leaderboard file.
C37_EveryMatchStartsFresh ==
    [][/\ MatchEnds =>
             /\ leaderboard' = leaderboard
             /\ current_round' = 0
             /\ players' = <<>>
       /\ MatchStarts =>
             /\ current_round' = 0
             /\ round_num' = 1
             /\ deck' = <<>> /\ path' = <<>>
             /\ hazard_counts' = NoHazards
             /\ artifacts_on_path' = <<>>
             /\ winner' = 0
             /\ leaderboard' = leaderboard
             /\ Len(players') = 1 + num_ai_players
             /\ players'[1].is_human
             /\ \A i \in 1..Len(players') :
                   /\ players'[i].tent_treasures = NoTreasures
                   /\ players'[i].round_treasures = NoTreasures
                   /\ players'[i].artifacts = 0
                   /\ players'[i].total_score = 0
                   /\ players'[i].in_temple]_vars

\* C37 witness: a match begins after a match that the human won with an artifact and
\* more than 5 points: the entry is in the leaderboard file, the game and its players are new
C37_Witness ==
    /\ pc = "play_round"
    /\ round_num = 1
    /\ current_round = 0
    /\ leaderboard.exists
    /\ Len(leaderboard.entries) = 1
    /\ leaderboard.entries[1].score > 5
    /\ leaderboard.entries[1].artifacts = 1
    /\ \A i \in PlayerIds : players[i].tent_treasures = NoTreasures /\ players[i].artifacts = 0

====
